---------------------------- MODULE Spec2Model ----------------------------
(***************************************************************************)
(* Milk Log (src/app.py): the milk_records store and its request handlers, *)
(* the /records pivot, and the init_db schema migration.                   *)
(*                                                                         *)
(* Representation                                                          *)
(*  - litres are integers in thousandths of a litre (4 is 0.004 L).        *)
(*    round(v, 2) is Round2: the nearest multiple of 10 thousandths.  The  *)
(*    litre inputs are chosen so that no sum ends in 5 thousandths: the    *)
(*    tie rule of round() on binary floats never decides a result here.    *)
(*  - a cow identifier is the sequence of the character codes of its text  *)
(*    (<<49, 48>> is "10"), so that int() and the text order are computed. *)
(*  - a record date is the ordinal of a canonical YYYY-MM-DD text, whose   *)
(*    text order (the order SQLite sorts by) is the calendar order; 0 is a *)
(*    text that date.fromisoformat refuses.                                *)
(*  - NULL is the SQL NULL of an id column (an unowned row).                *)
(***************************************************************************)
EXTENDS Integers, Sequences, FiniteSets, TLC

VARIABLES
    db,        \* the SQLite store: schema and rows
    db0,       \* the store as the process(es) found it at start
    pc,        \* per init_db worker: the statement it is about to run
    loc,       \* per init_db worker: the locals init_db has read so far
    runs,      \* the init_db invocations that ended, in the order they ended
    sortIn,    \* the by_cow keys handed to sorted(), in the order the query gave
    sortOut,   \* the result of sorted(by_cow.keys(), key=cow_key)
    solo,      \* the store of the run in which the other user never acted
    req,       \* the request being served, <<>> when none is
    resp       \* the response to it, <<>> until it is served

vars == <<db, db0, pc, loc, runs, sortIn, sortOut, solo, req, resp>>

\* SQL NULL in an integer column (row ids start at 1)
NULL == 0

\* ------------------------------------------------------------------ bounds
MaxRecords == 2
MaxLines == 1
MaxRows == 3
MaxDate == 2
MaxLast == 3
MaxCows == 3
MaxMissing == 1
MaxRuns == 2
NWorkers == 2

\* ----------------------------------------------------------- small helpers
Max2(a, b) == IF a >= b THEN a ELSE b

Min2(a, b) == IF a <= b THEN a ELSE b

\* The sum of a sequence of integers, halving it (integer sums do not
\* depend on the order of the additions)
RECURSIVE SeqSum(_)
SeqSum(s) ==
    IF s = <<>> THEN 0
    ELSE IF Len(s) = 1 THEN s[1]
    ELSE LET h == Len(s) \div 2
         IN  SeqSum(SubSeq(s, 1, h)) + SeqSum(SubSeq(s, h + 1, Len(s)))

Reversed(s) == [i \in 1..Len(s) |-> s[Len(s) + 1 - i]]

Range(s) == {s[i] : i \in 1..Len(s)}

\* ORDER BY x DESC over a set of integers
OrderDesc(S) ==
    [k \in 1..Cardinality(S) |->
        CHOOSE x \in S : Cardinality({y \in S : y > x}) = k - 1]

\* LIMIT n
Limit(s, n) == SubSeq(s, 1, Min2(n, Len(s)))

\* ------------------------------------------------------------------ schema
\* TENANT_SETTINGS[0]["slug"] when the environment configures nothing
DefaultSlug == "default"

Tables ==
    {"tenants", "tenant_mock_users", "users", "milk_records", "cows",
     "health_events", "breeding_events"}

\* The column list of each CREATE TABLE IF NOT EXISTS of init_db
Desired(t) ==
    CASE t = "tenants" ->
           <<"id", "slug", "name", "google_client_id", "created_at">>
      [] t = "tenant_mock_users" ->
           <<"id", "tenant_id", "email", "credential", "created_at">>
      [] t = "users" ->
           <<"id", "email", "password_hash", "role", "created_at", "tenant_id">>
      [] t = "milk_records" ->
           <<"id", "cow_number", "litres", "record_date", "session", "note",
             "tags", "price_per_litre", "deleted", "owner_id", "created_at",
             "edited_at">>
      [] t = "cows" ->
           <<"id", "tag", "name", "breed", "parity", "dob", "latest_calving",
             "group_name", "owner_id", "created_at", "edited_at">>
      [] t = "health_events" ->
           <<"id", "cow_tag", "event_date", "event_type", "details",
             "withdrawal_until", "protocol", "owner_id", "created_at",
             "edited_at">>
      [] t = "breeding_events" ->
           <<"id", "cow_tag", "event_date", "event_type", "sire", "details",
             "owner_id", "created_at", "edited_at">>

\* The table constraints each CREATE TABLE of init_db declares
TableConstraints(t) ==
    CASE t = "tenants" -> {"uq_tenants_slug"}
      [] t = "users" -> {"uq_users_email", "ck_users_role"}
      [] t = "milk_records" ->
           {"ck_litres", "ck_session", "ck_price", "ck_deleted"}
      [] t = "cows" -> {"uq_cows_tag"}
      [] OTHER -> {}

\* The columns init_db adds with ALTER TABLE when column_names lacks them
Migrated(t) ==
    CASE t = "tenants" -> <<"google_client_id">>
      [] t = "tenant_mock_users" -> <<>>
      [] t = "users" -> <<"tenant_id">>
      [] t = "milk_records" ->
           <<"session", "note", "tags", "price_per_litre", "deleted",
             "owner_id", "edited_at">>
      [] t = "cows" ->
           <<"name", "breed", "parity", "dob", "latest_calving", "group_name",
             "owner_id", "created_at", "edited_at">>
      [] t = "health_events" ->
           <<"details", "withdrawal_until", "protocol", "owner_id",
             "created_at", "edited_at">>
      [] t = "breeding_events" ->
           <<"sire", "details", "owner_id", "created_at", "edited_at">>

\* The constraint an ALTER TABLE ... ADD COLUMN of init_db carries, if any
AlterConstraints(t, c) ==
    IF t = "milk_records" /\ c = "price_per_litre" THEN {"ck_price"} ELSE {}

\* The store before anything was ever created in it
EmptyStore ==
    [cols    |-> [t \in {} |-> <<>>],
     idx     |-> {},
     chk     |-> {},
     tenants |-> <<>>,
     users   |-> <<>>,
     milk    |-> <<>>,
     cows    |-> <<>>,
     health  |-> <<>>,
     breeding |-> <<>>,
     mock    |-> <<>>]

\* No request is in flight and no second run is kept
NoRequest == solo = EmptyStore /\ req = <<>> /\ resp = <<>>

\* PRAGMA table_info(table): the column names, [] for a table that is absent
column_names(d, t) == IF t \in DOMAIN d.cols THEN d.cols[t] ELSE <<>>

has_table(d, t) == t \in DOMAIN d.cols

\* A statement's outcome: the store and locals after it, or the exception
Ok(d, l) == [db |-> d, loc |-> l, raised |-> FALSE]

Raise(d, l) == [db |-> d, loc |-> l, raised |-> TRUE]

\* CREATE TABLE IF NOT EXISTS t (...)
CreateTable(d, l, t) ==
    IF has_table(d, t) THEN Ok(d, l)
    ELSE Ok([d EXCEPT !.cols = [u \in DOMAIN d.cols \cup {t} |->
                                   IF u = t THEN Desired(t) ELSE d.cols[u]],
                      !.chk = @ \cup TableConstraints(t)], l)

\* column_names(conn, t) assigned to the local cols
ReadCols(d, l, t) == Ok(d, [l EXCEPT !.cols = Range(column_names(d, t))])

\* The rows the model keeps: the store field holding the rows of table t
\* (<<>> for a table whose rows are not modelled) and the columns they carry
RowsOf(t) ==
    CASE t = "tenants" -> <<"tenants">>
      [] t = "users" -> <<"users">>
      [] t = "milk_records" -> <<"milk">>
      [] t = "cows" -> <<"cows">>
      [] t = "health_events" -> <<"health">>
      [] t = "breeding_events" -> <<"breeding">>
      [] OTHER -> <<>>

RowFields(t) ==
    CASE t = "tenants" -> {"slug"}
      [] t = "users" -> {"email", "role", "tenant_id"}
      [] t = "milk_records" ->
           {"cow_number", "litres", "record_date", "session", "note", "tags",
            "price_per_litre", "deleted", "owner_id", "edited_at"}
      [] t = "cows" -> {"tag", "name", "owner_id"}
      [] t = "health_events" ->
           {"cow_tag", "event_date", "event_type", "details", "owner_id"}
      [] t = "breeding_events" ->
           {"cow_tag", "event_date", "event_type", "sire", "owner_id"}
      [] OTHER -> {}

\* The value an added column takes in the rows that exist: its DEFAULT, or
\* NULL (0 for an id column, <<>> for the other nullable columns)
ColumnDefault(t, c) ==
    CASE t = "milk_records" /\ c = "session" -> "AM"
      [] t = "milk_records" /\ c = "deleted" -> 0
      [] c \in {"owner_id", "tenant_id"} -> NULL
      [] OTHER -> <<>>

\* Every row extended with the column c holding v
WithColumn(rows, c, v) ==
    [i \in 1..Len(rows) |->
        [f \in DOMAIN rows[i] \cup {c} |-> IF f = c THEN v ELSE rows[i][f]]]

\* Variant: the table rebuilt with the new column and its rows not copied
AddColumn_Recreate(d, l, t, c) ==
    IF ~has_table(d, t) \/ c \in Range(d.cols[t]) THEN Raise(d, l)
    ELSE LET e == [d EXCEPT !.cols[t] = Append(@, c),
                            !.chk = @ \cup AlterConstraints(t, c)]
         IN  IF RowsOf(t) = <<>> THEN Ok(e, l)
             ELSE Ok([e EXCEPT ![RowsOf(t)[1]] = <<>>], l)

\* ALTER TABLE t ADD COLUMN c: SQLite refuses a duplicate column name; the
\* rows that exist keep their values and take the column's default
AddColumn(d, l, t, c) ==
    IF ~has_table(d, t) \/ c \in Range(d.cols[t]) THEN Raise(d, l)
    ELSE LET e == [d EXCEPT !.cols[t] = Append(@, c),
                            !.chk = @ \cup AlterConstraints(t, c)]
         IN  IF RowsOf(t) = <<>> \/ c \notin RowFields(t) THEN Ok(e, l)
             ELSE Ok([e EXCEPT ![RowsOf(t)[1]] =
                                  WithColumn(@, c, ColumnDefault(t, c))], l)

\* if c not in cols: ALTER TABLE t ADD COLUMN c
AlterIfMissing(d, l, t, c) ==
    IF c \notin l.cols THEN AddColumn(d, l, t, c) ELSE Ok(d, l)

\* CREATE [UNIQUE] INDEX IF NOT EXISTS name ON t(on): an index of that name
\* is left alone; otherwise every indexed column must exist
CreateIndex(d, l, name, t, on) ==
    IF name \in d.idx THEN Ok(d, l)
    ELSE IF ~has_table(d, t) \/ ~(on \subseteq Range(d.cols[t])) THEN Raise(d, l)
    ELSE Ok([d EXCEPT !.idx = @ \cup {name}], l)

\* DROP INDEX IF EXISTS name
DropIndex(d, l, name) == Ok([d EXCEPT !.idx = @ \ {name}], l)

\* SELECT id FROM tenants WHERE slug=? assigned to the local default_tenant
SelectDefaultTenant(d, l) ==
    IF ~({"id", "slug"} \subseteq Range(column_names(d, "tenants")))
    THEN Raise(d, l)
    ELSE Ok(d, [l EXCEPT !.default_tenant =
                   \E i \in 1..Len(d.tenants) : d.tenants[i].slug = DefaultSlug])

\* INSERT INTO tenants (slug, name, google_client_id, created_at): every
\* named column must exist and slug is UNIQUE where the table declares it
InsertTenant(d, l, slug) ==
    IF ~({"slug", "name", "google_client_id", "created_at"}
            \subseteq Range(column_names(d, "tenants")))
    THEN Raise(d, l)
    ELSE IF "uq_tenants_slug" \in d.chk
            /\ \E i \in 1..Len(d.tenants) : d.tenants[i].slug = slug
    THEN Raise(d, l)
    ELSE Ok([d EXCEPT !.tenants = Append(@, [slug |-> slug])], l)

\* Variant: the INSERT without the test of default_tenant
InsertDefaultAlways(d, l) == InsertTenant(d, l, DefaultSlug)

\* if not default_tenant: INSERT the default tenant
InsertDefaultIfMissing(d, l) ==
    IF ~l.default_tenant THEN InsertTenant(d, l, DefaultSlug) ELSE Ok(d, l)

\* The id of the default tenant: its row number (AUTOINCREMENT, never deleted)
DefaultTenantId(d) ==
    IF \E i \in 1..Len(d.tenants) : d.tenants[i].slug = DefaultSlug
    THEN CHOOSE i \in 1..Len(d.tenants) :
            /\ d.tenants[i].slug = DefaultSlug
            /\ \A j \in 1..(i - 1) : d.tenants[j].slug # DefaultSlug
    ELSE 1

\* UPDATE users SET tenant_id=? WHERE tenant_id IS NULL
UpdateUsersTenant(d, l) ==
    IF ~("tenant_id" \in Range(column_names(d, "users"))) THEN Raise(d, l)
    ELSE Ok([d EXCEPT !.users =
                [i \in 1..Len(@) |->
                    IF @[i].tenant_id = NULL
                    THEN [@[i] EXCEPT !.tenant_id = DefaultTenantId(d)]
                    ELSE @[i]]], l)

\* ----------------------------------------------------------------- init_db
Stmt(op, t, c, on) == [op |-> op, t |-> t, c |-> c, on |-> on]

IndexStmt(name, t, on) == Stmt("index", t, name, on)

\* CREATE TABLE, column_names, one guarded ALTER per migrated column
TableBlock(t) ==
    <<Stmt("create", t, "", {}), Stmt("readcols", t, "", {})>>
    \o [i \in 1..Len(Migrated(t)) |-> Stmt("alter", t, Migrated(t)[i], {})]

\* The statements of init_db in the order the code runs them
Program ==
    TableBlock("tenants")
    \o <<Stmt("create", "tenant_mock_users", "", {}),
         IndexStmt("idx_tenant_mock_token", "tenant_mock_users",
                   {"tenant_id", "credential"})>>
    \o TableBlock("users")
    \o <<Stmt("select_default", "tenants", "", {}),
         Stmt("insert_default", "tenants", "", {}),
         Stmt("update_users", "users", "", {}),
         Stmt("drop_index", "users", "idx_users_email", {}),
         IndexStmt("idx_users_tenant_email", "users", {"tenant_id", "email"})>>
    \o TableBlock("milk_records")
    \o <<IndexStmt("idx_milk_date", "milk_records", {"record_date"}),
         IndexStmt("idx_milk_cow", "milk_records", {"cow_number"}),
         IndexStmt("idx_milk_sess", "milk_records", {"session"}),
         IndexStmt("idx_milk_del", "milk_records", {"deleted"}),
         IndexStmt("idx_milk_owner", "milk_records", {"owner_id"})>>
    \o TableBlock("cows")
    \o <<IndexStmt("idx_cows_tag", "cows", {"tag"}),
         IndexStmt("idx_cows_group", "cows", {"group_name"}),
         IndexStmt("idx_cows_owner", "cows", {"owner_id"})>>
    \o TableBlock("health_events")
    \o <<IndexStmt("idx_health_cowdate", "health_events",
                   {"cow_tag", "event_date"}),
         IndexStmt("idx_health_owner", "health_events", {"owner_id"})>>
    \o TableBlock("breeding_events")
    \o <<IndexStmt("idx_breed_cowdate", "breeding_events",
                   {"cow_tag", "event_date"}),
         IndexStmt("idx_breed_owner", "breeding_events", {"owner_id"})>>

\* conn.execute of one statement of init_db
ExecStmt(st, d, l) ==
    CASE st.op = "create" -> CreateTable(d, l, st.t)
      [] st.op = "readcols" -> ReadCols(d, l, st.t)
      [] st.op = "alter" -> AlterIfMissing(d, l, st.t, st.c)
      [] st.op = "index" -> CreateIndex(d, l, st.c, st.t, st.on)
      [] st.op = "drop_index" -> DropIndex(d, l, st.c)
      [] st.op = "select_default" -> SelectDefaultTenant(d, l)
      [] st.op = "insert_default" -> InsertDefaultIfMissing(d, l)
      [] st.op = "update_users" -> UpdateUsersTenant(d, l)

\* Statements i..Len(Program) in order, stopping at the first that raises
RECURSIVE RunFrom(_, _, _)
RunFrom(i, d, l) ==
    IF i > Len(Program) THEN Ok(d, l)
    ELSE LET r == ExecStmt(Program[i], d, l)
         IN  IF r.raised THEN r ELSE RunFrom(i + 1, r.db, r.loc)

\* The sqlite3 module opens a transaction before the first INSERT or UPDATE
\* and not before DDL: the statements before it are committed one by one
OpensTransaction(st, l) ==
    \/ st.op = "insert_default" /\ ~l.default_tenant
    \/ st.op = "update_users"

\* `with conn:` from the first INSERT/UPDATE on: the rest of init_db runs in
\* one transaction, committed at the end or rolled back when it raises
RunTransaction(i, d, l) ==
    LET r == RunFrom(i, d, l)
    IN  IF r.raised THEN Raise(d, l) ELSE r

NoLocals == [cols |-> {}, default_tenant |-> FALSE]

\* init_db() run alone from start to end: the store it leaves and whether
\* it raised
RECURSIVE InitDbFrom(_, _, _)
InitDbFrom(i, d, l) ==
    IF i > Len(Program) THEN Ok(d, l)
    ELSE IF OpensTransaction(Program[i], l) THEN RunTransaction(i, d, l)
    ELSE LET r == ExecStmt(Program[i], d, l)
         IN  IF r.raised THEN r ELSE InitDbFrom(i + 1, r.db, r.loc)

init_db(d) == InitDbFrom(1, d, NoLocals)

\* ------------------------------------------------- stores found at start
AllCols(t) == Range(Desired(t))

\* The columns a table had before any of the migrated columns was added
OldCols(t) == AllCols(t) \ Range(Migrated(t))

\* A store whose tables are DOMAIN shape, table t holding the columns
\* shape[t] in the order of the CREATE TABLE, with the constraints chk
StoreOf(shape, chk, tenantRows, userRows) ==
    [cols    |-> [t \in DOMAIN shape |->
                     SelectSeq(Desired(t), LAMBDA c : c \in shape[t])],
     idx     |-> IF "users" \in DOMAIN shape THEN {"idx_users_email"} ELSE {},
     chk     |-> chk,
     tenants |-> tenantRows,
     users   |-> userRows,
     milk    |-> <<>>,
     cows    |-> <<>>,
     health  |-> <<>>,
     breeding |-> <<>>,
     mock    |-> <<>>]

Declared(shape) == UNION {TableConstraints(t) : t \in DOMAIN shape}

AbsentShape == [t \in {} |-> {}]

OldShape == [t \in Tables |-> OldCols(t)]

FullShape == [t \in Tables |-> AllCols(t)]

Baselines == {AbsentShape, OldShape, FullShape}

\* shape with table t dropped
Without(shape, t) == [u \in DOMAIN shape \ {t} |-> shape[u]]

\* shape with table t present and holding the columns keep
With(shape, t, keep) ==
    [u \in DOMAIN shape \cup {t} |-> IF u = t THEN keep ELSE shape[u]]

\* The column sets table t may be found with: all of base but at most
\* MaxMissing columns other than the key column id
Lacking(base) ==
    {base \ m : m \in {x \in SUBSET (base \ {"id"}) :
                            Cardinality(x) <= MaxMissing}}

PriorColumns(t) == Lacking(OldCols(t)) \cup Lacking(AllCols(t))

\* Prior schema states: a baseline, and a baseline with one table absent or
\* lacking up to MaxMissing of the columns it could have
PriorShapes ==
    Baselines
    \cup {Without(b, t) : b \in Baselines, t \in Tables}
    \cup UNION {{With(b, t, keep) : keep \in PriorColumns(t)} :
                 b \in Baselines, t \in Tables}

\* Rows an older store may hold
PriorTenantRows(shape) ==
    IF "tenants" \in DOMAIN shape /\ "slug" \in shape["tenants"]
    THEN {<<>>, <<[slug |-> DefaultSlug]>>}
    ELSE {<<>>}

PriorUserRows(shape) ==
    IF "users" \in DOMAIN shape /\ "tenant_id" \notin shape["users"]
       /\ {"email", "role"} \subseteq shape["users"]
    THEN {<<>>, <<[email |-> "a@x", role |-> "admin"]>>}
    ELSE {<<>>}

\* A milk record of an older store (cow "2", 5.0 litres): the columns its
\* table has, among those the model keeps
OldMilkRow ==
    [cow_number |-> <<50>>, litres |-> 5000, record_date |-> 1,
     session |-> "PM", note |-> <<"fresh">>, tags |-> <<>>,
     price_per_litre |-> <<>>, deleted |-> 1, owner_id |-> 1,
     edited_at |-> <<>>]

PriorMilkRows(shape) ==
    IF "milk_records" \in DOMAIN shape
       /\ {"cow_number", "litres", "record_date"} \subseteq shape["milk_records"]
    THEN {<<>>,
          <<[f \in RowFields("milk_records") \cap shape["milk_records"] |->
                OldMilkRow[f]]>>}
    ELSE {<<>>}

PriorStores ==
    UNION {{[StoreOf(sh, Declared(sh), tr, ur) EXCEPT !.milk = mr] :
              tr \in PriorTenantRows(sh), ur \in PriorUserRows(sh),
              mr \in PriorMilkRows(sh)} :
            sh \in PriorShapes}

\* Stores several workers may start on: created by this init_db or by the
\* version before the migrated columns, with or without the default tenant
SharedStores ==
    UNION {{StoreOf(sh, Declared(sh), tr, ur) :
              tr \in PriorTenantRows(sh), ur \in PriorUserRows(sh)} :
            sh \in Baselines}

\* --------------------------------------------------- init_db, step by step
Workers == 1..NWorkers

Idle == [st |-> "idle", at |-> 0]

Running(w) == pc[w].st = "run"

Ended(w) == pc[w].st \in {"ok", "raised"}

EndOf(w, r) ==
    /\ pc' = [pc EXCEPT ![w] = [st |-> IF r.raised THEN "raised" ELSE "ok",
                                at |-> pc[w].at]]
    /\ runs' = Append(runs, [w |-> w, raised |-> r.raised, db |-> r.db])

\* A process imports the module: init_db() is entered
Begin(w) ==
    /\ pc[w].st = "idle"
    /\ pc' = [pc EXCEPT ![w] = [st |-> "run", at |-> 1]]
    /\ loc' = [loc EXCEPT ![w] = NoLocals]
    /\ UNCHANGED <<db, db0, runs, sortIn, sortOut, solo, req, resp>>

\* The process is started again on the same store
Again(w) ==
    /\ Ended(w)
    /\ Len(runs) < MaxRuns
    /\ pc' = [pc EXCEPT ![w] = [st |-> "run", at |-> 1]]
    /\ loc' = [loc EXCEPT ![w] = NoLocals]
    /\ UNCHANGED <<db, db0, runs, sortIn, sortOut, solo, req, resp>>

\* One statement outside a transaction: committed as it is executed
Autocommit(w) ==
    /\ Running(w)
    /\ ~OpensTransaction(Program[pc[w].at], loc[w])
    /\ LET r == ExecStmt(Program[pc[w].at], db, loc[w])
       IN  /\ db' = r.db
           /\ loc' = [loc EXCEPT ![w] = r.loc]
           /\ IF r.raised
              THEN EndOf(w, r)
              ELSE /\ pc' = [pc EXCEPT ![w].at = @ + 1]
                   /\ UNCHANGED runs
    /\ UNCHANGED <<db0, sortIn, sortOut, solo, req, resp>>

\* The first INSERT/UPDATE and everything after it: one write transaction.
\* SQLite admits one writer; a second writer waits for the commit, and a
\* reader meanwhile sees the store as it was before the transaction.
Transaction(w) ==
    /\ Running(w)
    /\ OpensTransaction(Program[pc[w].at], loc[w])
    /\ LET r == RunTransaction(pc[w].at, db, loc[w])
       IN  /\ db' = r.db
           /\ loc' = [loc EXCEPT ![w] = r.loc]
           /\ EndOf(w, r)
    /\ UNCHANGED <<db0, sortIn, sortOut, solo, req, resp>>

InitMig(stores) ==
    /\ db \in stores
    /\ db0 = db
    /\ pc = [w \in Workers |-> Idle]
    /\ loc = [w \in Workers |-> NoLocals]
    /\ runs = <<>>
    /\ sortIn = <<>>
    /\ sortOut = <<>>
    /\ NoRequest

\* One process, started up to MaxRuns times, on any prior store
InitSeq == InitMig(PriorStores)

NextSeq == Begin(1) \/ Again(1) \/ Autocommit(1) \/ Transaction(1)

SpecSeq == InitSeq /\ [][NextSeq]_vars

\* NWorkers processes started together on one store
InitConc == InitMig(SharedStores)

NextConc == \E w \in Workers : Begin(w) \/ Autocommit(w) \/ Transaction(w)

SpecConc == InitConc /\ [][NextConc]_vars

\* ------------------------------------------------------------------- pivot
\* The limits of last = max(1, min(last, 90))
MinWindow == 1

MaxWindow == 90

\* Variant: the clamp without its upper limit
ClampLast_NoUpper(last) == Max2(MinWindow, last)

\* last = max(1, min(last, 90))
ClampLast(last) == Max2(MinWindow, Min2(last, MaxWindow))

\* round(v, 2) of v thousandths, in thousandths; a tie goes to the even
\* hundredth
Round2(v) ==
    LET r == v % 10
    IN  IF r < 5 THEN v - r
        ELSE IF r > 5 THEN v - r + 10
        ELSE IF ((v - 5) \div 10) % 2 = 0 THEN v - 5 ELSE v + 5

\* The text order of two character sequences (str <, SQLite BINARY)
RECURSIVE LexLess(_, _)
LexLess(a, b) ==
    IF b = <<>> THEN FALSE
    ELSE IF a = <<>> THEN TRUE
    ELSE IF Head(a) # Head(b) THEN Head(a) < Head(b)
    ELSE LexLess(Tail(a), Tail(b))

IsDigit(ch) == ch >= 48 /\ ch <= 57

IsSign(ch) == ch = 43 \/ ch = 45

Unsigned(c) == IF c # <<>> /\ IsSign(Head(c)) THEN Tail(c) ELSE c

\* Whether int(c) succeeds: an optional sign and one or more digits
IsInt(c) ==
    /\ Unsigned(c) # <<>>
    /\ \A i \in 1..Len(Unsigned(c)) : IsDigit(Unsigned(c)[i])

RECURSIVE DigitsValue(_)
DigitsValue(ds) ==
    IF ds = <<>> THEN 0
    ELSE 10 * DigitsValue(SubSeq(ds, 1, Len(ds) - 1)) + (ds[Len(ds)] - 48)

\* int(c)
IntValue(c) ==
    IF Head(c) = 45 THEN 0 - DigitsValue(Unsigned(c))
    ELSE DigitsValue(Unsigned(c))

\* int() skips blanks around the number
RECURSIVE StripBlanks(_)
StripBlanks(c) ==
    IF c = <<>> THEN c
    ELSE IF Head(c) = 32 THEN StripBlanks(Tail(c))
    ELSE IF c[Len(c)] = 32 THEN StripBlanks(SubSeq(c, 1, Len(c) - 1))
    ELSE c

\* except ValueError: last = 7
DefaultLast == 7

\* Variant: a text that is no integer counts as 0
LastArg_NoDefault(arg) ==
    LET text == StripBlanks(IF arg = <<>> THEN <<55>> ELSE arg[1])
    IN  IF IsInt(text) THEN IntValue(text) ELSE 0

\* int(request.args.get("last", "7")), 7 on ValueError; arg is <<>> when
\* the query string has no last, else <<text>>
LastArg(arg) ==
    LET text == StripBlanks(IF arg = <<>> THEN <<55>> ELSE arg[1])
    IN  IF IsInt(text) THEN IntValue(text) ELSE DefaultLast

\* The window GET /records?last=... works with
WindowOf(arg) == ClampLast(LastArg(arg))

\* Variant: every cow keyed as text
cow_key_Text(c) == [tag |-> 1, num |-> 0, txt |-> c]

\* cow_key(c): (0, int(c)), or (1, c) when int(c) raises
cow_key(c) ==
    IF IsInt(c) THEN [tag |-> 0, num |-> IntValue(c), txt |-> <<>>]
    ELSE [tag |-> 1, num |-> 0, txt |-> c]

\* The order of the key tuples
KeyLess(x, y) ==
    IF x.tag # y.tag THEN x.tag < y.tag
    ELSE IF x.tag = 0 THEN x.num < y.num
    ELSE LexLess(x.txt, y.txt)

\* sorted() is stable: x goes after every element whose key is not greater
RECURSIVE InsertByKey(_, _)
InsertByKey(s, x) ==
    IF s = <<>> THEN <<x>>
    ELSE IF KeyLess(cow_key(x), cow_key(Head(s))) THEN <<x>> \o s
    ELSE <<Head(s)>> \o InsertByKey(Tail(s), x)

\* sorted(keys, key=cow_key)
RECURSIVE SortedCows(_)
SortedCows(keys) ==
    IF keys = <<>> THEN <<>>
    ELSE InsertByKey(SortedCows(SubSeq(keys, 1, Len(keys) - 1)),
                     keys[Len(keys)])

\* A set of texts in text order: the order SQLite's GROUP BY hands groups out
RECURSIVE TextOrder(_)
TextOrder(S) ==
    IF S = {} THEN <<>>
    ELSE LET mn == CHOOSE x \in S : \A y \in S \ {x} : LexLess(x, y)
         IN  <<mn>> \o TextOrder(S \ {mn})

sessions == <<"AM", "PM">>

\* Variant: the filter without the owner
Visible_AnyOwner(m, o) == {i \in 1..Len(m) : m[i].deleted = 0}

\* Variant: the filter without deleted=0
Visible_WithDeleted(m, o) == {i \in 1..Len(m) : m[i].owner_id = o}

\* WHERE deleted=0 AND owner_id=?
Visible(m, o) == {i \in 1..Len(m) : m[i].deleted = 0 /\ m[i].owner_id = o}

\* SELECT DISTINCT record_date ... ORDER BY record_date DESC LIMIT ?
DatesDesc(m, o, last) ==
    Limit(OrderDesc({m[i].record_date : i \in Visible(m, o)}), last)

\* dates = list(reversed(...))
PivotDates(m, o, last) == Reversed(DatesDesc(m, o, ClampLast(last)))

\* The rows of the query: WHERE ... record_date IN (dates)
InWindow(m, o, dates) ==
    {i \in Visible(m, o) : m[i].record_date \in Range(dates)}

\* SUM(litres) over the rows I of the table
SumLitres(m, I) ==
    SeqSum([i \in 1..Len(m) |-> IF i \in I THEN m[i].litres ELSE 0])

\* GROUP BY cow_number, record_date, session with SUM(litres), then
\* by_cow[cow][(record_date, session)] = float(litres or 0)
by_cow(m, o, dates) ==
    [cow \in {m[i].cow_number : i \in InWindow(m, o, dates)} |->
        [k \in {<<m[i].record_date, m[i].session>> :
                   i \in {j \in InWindow(m, o, dates) : m[j].cow_number = cow}}
          |-> SumLitres(m, {i \in InWindow(m, o, dates) :
                               /\ m[i].cow_number = cow
                               /\ m[i].record_date = k[1]
                               /\ m[i].session = k[2]})]]

\* by_cow[cow].get((d, s), 0.0)
CellValue(entry, d, s) == IF <<d, s>> \in DOMAIN entry THEN entry[<<d, s>>] ELSE 0

\* Variant: only the combinations that have a stored sum
RowValues_Sparse(entry, dates) ==
    LET present == {j \in 1..(Len(dates) * Len(sessions)) :
                       <<dates[((j - 1) \div Len(sessions)) + 1],
                         sessions[((j - 1) % Len(sessions)) + 1]>> \in DOMAIN entry}
    IN  [n \in 1..Cardinality(present) |->
            LET j == CHOOSE x \in present :
                        Cardinality({y \in present : y < x}) = n - 1
            IN  entry[<<dates[((j - 1) \div Len(sessions)) + 1],
                        sessions[((j - 1) % Len(sessions)) + 1]>>]]

\* for d in dates: for s in sessions: v = ...; the sequence of the v
RowValues(entry, dates) ==
    [j \in 1..(Len(dates) * Len(sessions)) |->
        CellValue(entry,
                  dates[((j - 1) \div Len(sessions)) + 1],
                  sessions[((j - 1) % Len(sessions)) + 1])]

\* row_vals.append(round(v, 2))
RowCells(vals) == [j \in 1..Len(vals) |-> Round2(vals[j])]

\* total += v; round(total, 2)
RowTotal(vals) == Round2(SeqSum(vals))

PivotRow(cow, entry, dates) ==
    [cow   |-> cow,
     cells |-> RowCells(RowValues(entry, dates)),
     total |-> RowTotal(RowValues(entry, dates))]

\* rows: one per by_cow key, in sorted(by_cow.keys(), key=cow_key) order
PivotRows(m, o, dates) ==
    IF dates = <<>> THEN <<>>
    ELSE LET bc == by_cow(m, o, dates)
             order == SortedCows(TextOrder(DOMAIN bc))
         IN  [k \in 1..Len(order) |-> PivotRow(order[k], bc[order[k]], dates)]

\* records_screen for the user o with ?last=last
records_screen(m, o, last) ==
    LET dates == PivotDates(m, o, last)
    IN  [dates |-> dates, rows |-> PivotRows(m, o, dates)]

\* ------------------------------------------------------------ milk records
\* Cow identifiers as character codes: "2", "10", "abc"
Cow2 == <<50>>

Cow10 == <<49, 48>>

CowAbc == <<97, 98, 99>>

\* A record_date text that date.fromisoformat refuses
BadDate == 0

Dates == 1..MaxDate

\* request inputs
Owners == {1, 2}

CowIn == {Cow2, Cow10}

LitresIn == {-1000, 4, 5000}

DateIn == {BadDate} \cup Dates

SessionIn == {"AM", "PM", "evening"}

\* An optional form field or token: <<>> when absent, <<x>> when given
Opt(S) == {<<>>} \cup {<<x>> : x \in S}

\* INSERT INTO milk_records (...): CHECK(litres >= 0) where the table
\* declares it; deleted takes its DEFAULT 0
InsertMilk(d, rec) ==
    IF "ck_litres" \in d.chk /\ rec.litres < 0 THEN [db |-> d, raised |-> TRUE]
    ELSE [db |-> [d EXCEPT !.milk = Append(@, rec)], raised |-> FALSE]

\* s.strip() of the texts the model sends
Strip(s) == IF s = " " THEN "" ELSE s

\* x or None of a text: the nullable column value
OrNone(s) == IF s = "" THEN <<>> ELSE <<s>>

\* datetime.utcnow().isoformat(): one reading of the clock, as a text
utcnow == "now"

\* The same without date.fromisoformat(record_date_str)
add_record_AnyDate(d, cow_number, litres, record_date_str, session_val, note, tags, owner_id, price_per_litre) ==
    IF price_per_litre # <<>> /\ price_per_litre[1] < 0
    THEN [db |-> d, raised |-> TRUE]
    ELSE InsertMilk(d, [cow_number |-> cow_number,
                        litres      |-> litres,
                        record_date |-> record_date_str,
                        session     |-> IF session_val \in {"AM", "PM"}
                                        THEN session_val ELSE "AM",
                        note        |-> OrNone(Strip(note)),
                        tags        |-> OrNone(Strip(tags)),
                        price_per_litre |-> price_per_litre,
                        deleted     |-> 0,
                        owner_id    |-> owner_id,
                        edited_at   |-> <<>>])

add_record(d, cow_number, litres, record_date_str, session_val, note, tags, owner_id, price_per_litre) ==
    IF record_date_str = BadDate THEN [db |-> d, raised |-> TRUE]
    ELSE IF price_per_litre # <<>> /\ price_per_litre[1] < 0
    THEN [db |-> d, raised |-> TRUE]
    ELSE InsertMilk(d, [cow_number |-> cow_number,
                        litres      |-> litres,
                        record_date |-> record_date_str,
                        session     |-> IF session_val \in {"AM", "PM"}
                                        THEN session_val ELSE "AM",
                        note        |-> OrNone(Strip(note)),
                        tags        |-> OrNone(Strip(tags)),
                        price_per_litre |-> price_per_litre,
                        deleted     |-> 0,
                        owner_id    |-> owner_id,
                        edited_at   |-> <<>>])

\* Variant: the session is stored as sent
update_record_RawSession(d, rec_id, litres, session_val, note, tags, owner_id, price_per_litre) ==
    LET hit == {i \in 1..Len(d.milk) : i = rec_id /\ d.milk[i].owner_id = owner_id}
        new(r) == [r EXCEPT
                      !.litres = IF litres # <<>> THEN litres[1] ELSE @,
                      !.session = IF session_val # <<>> THEN session_val[1] ELSE @,
                      !.note = OrNone(Strip(note)),
                      !.tags = OrNone(Strip(tags)),
                      !.price_per_litre = IF price_per_litre # <<>>
                                          THEN price_per_litre ELSE @,
                      !.edited_at = <<utcnow>>]
    IN  IF price_per_litre # <<>> /\ price_per_litre[1] < 0
        THEN [db |-> d, raised |-> TRUE]
        ELSE IF hit # {} /\ "ck_litres" \in d.chk /\ litres # <<>> /\ litres[1] < 0
        THEN [db |-> d, raised |-> TRUE]
        ELSE [db |-> [d EXCEPT !.milk = [i \in 1..Len(@) |->
                                            IF i \in hit THEN new(@[i]) ELSE @[i]]],
              raised |-> FALSE]

\* UPDATE milk_records SET ... WHERE owner_id=? AND id=?: the CHECK on
\* litres, where declared, refuses the whole statement
update_record(d, rec_id, litres, session_val, note, tags, owner_id, price_per_litre) ==
    LET hit == {i \in 1..Len(d.milk) : i = rec_id /\ d.milk[i].owner_id = owner_id}
        new(r) == [r EXCEPT
                      !.litres = IF litres # <<>> THEN litres[1] ELSE @,
                      !.session = IF session_val # <<>>
                                  THEN (IF session_val[1] \in {"AM", "PM"}
                                        THEN session_val[1] ELSE "AM")
                                  ELSE @,
                      !.note = OrNone(Strip(note)),
                      !.tags = OrNone(Strip(tags)),
                      !.price_per_litre = IF price_per_litre # <<>>
                                          THEN price_per_litre ELSE @,
                      !.edited_at = <<utcnow>>]
    IN  IF price_per_litre # <<>> /\ price_per_litre[1] < 0
        THEN [db |-> d, raised |-> TRUE]
        ELSE IF hit # {} /\ "ck_litres" \in d.chk /\ litres # <<>> /\ litres[1] < 0
        THEN [db |-> d, raised |-> TRUE]
        ELSE [db |-> [d EXCEPT !.milk = [i \in 1..Len(@) |->
                                            IF i \in hit THEN new(@[i]) ELSE @[i]]],
              raised |-> FALSE]

\* The same UPDATE with WHERE id=? alone
SetDeleted_AnyOwner(d, rec_id, owner_id, flag) ==
    [d EXCEPT !.milk = [i \in 1..Len(@) |->
                           IF i = rec_id
                           THEN [@[i] EXCEPT !.deleted = flag,
                                             !.edited_at = <<utcnow>>]
                           ELSE @[i]]]

\* UPDATE milk_records SET deleted=?, edited_at=? WHERE owner_id=? AND id=?
SetDeleted(d, rec_id, owner_id, flag) ==
    [d EXCEPT !.milk = [i \in 1..Len(@) |->
                           IF i = rec_id /\ @[i].owner_id = owner_id
                           THEN [@[i] EXCEPT !.deleted = flag,
                                             !.edited_at = <<utcnow>>]
                           ELSE @[i]]]

\* DELETE FROM milk_records WHERE owner_id=? AND id=?, which the code
\* never issues
HardDelete(d, rec_id, owner_id) ==
    IF rec_id \in 1..Len(d.milk) /\ d.milk[rec_id].owner_id = owner_id
    THEN [d EXCEPT !.milk = [i \in 1..(Len(@) - 1) |->
                                IF i < rec_id THEN @[i] ELSE @[i + 1]]]
    ELSE d

soft_delete_record(d, rec_id, owner_id) == SetDeleted(d, rec_id, owner_id, 1)

\* A restore that writes the row afresh: deleted=0 and the note dropped
RestoreAsNew(d, rec_id, owner_id) ==
    [d EXCEPT !.milk = [i \in 1..Len(@) |->
                           IF i = rec_id /\ @[i].owner_id = owner_id
                           THEN [@[i] EXCEPT !.deleted = 0, !.note = <<>>,
                                             !.edited_at = <<utcnow>>]
                           ELSE @[i]]]

restore_record(d, rec_id, owner_id) == SetDeleted(d, rec_id, owner_id, 0)

\* One line of the bulk form: cow litres [date] [AM|PM] [$price] [tag]; a
\* failing line is skipped (except Exception: continue)
BulkLine(d, line, default_date, default_session, owner_id) ==
    LET dt == IF line.date # <<>> THEN line.date[1] ELSE default_date
        ss == IF line.session # <<>> THEN line.session[1] ELSE default_session
        r == add_record(d, line.cow, line.litres, dt, ss, "", line.tags,
                        owner_id, line.price)
    IN  IF r.raised THEN d ELSE r.db

RECURSIVE BulkLines(_, _, _, _, _)
BulkLines(d, lines, default_date, default_session, owner_id) ==
    IF lines = <<>> THEN d
    ELSE BulkLines(BulkLine(d, Head(lines), default_date, default_session, owner_id),
                   Tail(lines), default_date, default_session, owner_id)

\* One row of the uploaded CSV; a failing row is skipped (except: pass)
CsvRow(d, row, owner_id) ==
    LET r == add_record(d, row.cow_number, row.litres, row.record_date,
                        row.session, row.note, row.tags, owner_id,
                        row.price_per_litre)
    IN  IF r.raised THEN d ELSE r.db

RECURSIVE CsvRows(_, _, _)
CsvRows(d, rows, owner_id) ==
    IF rows = <<>> THEN d
    ELSE CsvRows(CsvRow(d, Head(rows), owner_id), Tail(rows), owner_id)

IsAdmin(d, u) == u \in 1..Len(d.users) /\ d.users[u].role = "admin"

\* The body of POST /add: the store it leaves
AddPost(d, o, cow, litres, record_date, session_val, note, tags, price) ==
    IF cow = <<>> \/ litres < 0 THEN d
    ELSE IF price # <<>> /\ price[1] < 0 THEN d
    ELSE LET r == add_record(d, cow, litres, record_date, session_val,
                             Strip(note), Strip(tags), o, price)
         IN  IF r.raised THEN d ELSE r.db

\* The message POST /add flashes
AddFlash(d, o, cow, litres, record_date, session_val, note, tags, price) ==
    IF cow = <<>> THEN "Cow number is required"
    ELSE IF litres < 0 THEN "Litres must be a non-negative number"
    ELSE IF price # <<>> /\ price[1] < 0
    THEN "Price per litre must be a non-negative number"
    ELSE LET r == add_record(d, cow, litres, record_date, session_val,
                             Strip(note), Strip(tags), o, price)
         IN  IF ~r.raised THEN "Saved!"
             ELSE IF record_date = BadDate THEN "Bad date. Use YYYY-MM-DD."
             ELSE "Error saving"

\* The body of POST /update/<rec_id>
UpdatePost(d, o, rec_id, litres, session_val, note, tags, price) ==
    IF price # <<>> /\ price[1] < 0 THEN d
    ELSE update_record(d, rec_id, litres, session_val, note, tags, o, price).db

\* INSERT OR IGNORE INTO cows (tag, ..., owner_id, ...): tag is UNIQUE over
\* the whole table, whoever owns the row, and a clash drops the new row
InsertCowOrIgnore(d, tag, name, owner_id) ==
    IF "uq_cows_tag" \in d.chk /\ \E i \in 1..Len(d.cows) : d.cows[i].tag = tag
    THEN d
    ELSE [d EXCEPT !.cows = Append(@, [tag |-> tag, name |-> name,
                                        owner_id |-> owner_id])]

\* The body of POST /cows
\* name is request.form.get("name") or None: <<>> when left empty
CowsPost(d, o, tag, name) ==
    IF tag = <<>> THEN d ELSE InsertCowOrIgnore(d, tag, name, o)

\* Variant: the submission takes the place of the latest stored event
HealthPost_Replace(d, o, cow_tag, event_date, event_type, details) ==
    IF event_date = BadDate \/ cow_tag = <<>> \/ event_type = "" THEN d
    ELSE [d EXCEPT !.health = Append(SubSeq(@, 1, Len(@) - 1),
                                     [cow_tag |-> cow_tag,
                                      event_date |-> event_date,
                                      event_type |-> event_type,
                                      details |-> details,
                                      owner_id |-> o])]

\* The body of POST /health: a failing submission stores nothing
HealthPost(d, o, cow_tag, event_date, event_type, details) ==
    IF event_date = BadDate \/ cow_tag = <<>> \/ event_type = "" THEN d
    ELSE [d EXCEPT !.health = Append(@, [cow_tag |-> cow_tag,
                                          event_date |-> event_date,
                                          event_type |-> event_type,
                                          details |-> details,
                                          owner_id |-> o])]

\* The body of POST /breeding
BreedingPost(d, o, cow_tag, event_date, event_type, sire) ==
    IF event_date = BadDate \/ cow_tag = <<>> \/ event_type = "" THEN d
    ELSE [d EXCEPT !.breeding = Append(@, [cow_tag |-> cow_tag,
                                            event_date |-> event_date,
                                            event_type |-> event_type,
                                            sire |-> sire,
                                            owner_id |-> o])]

ClaimTables == {"milk_records", "cows", "health_events", "breeding_events"}

\* UPDATE {table} SET owner_id=? WHERE owner_id IS NULL
ClaimRows(rows, u) ==
    [i \in 1..Len(rows) |->
        IF rows[i].owner_id = NULL THEN [rows[i] EXCEPT !.owner_id = u]
        ELSE rows[i]]

\* Variant: the UPDATE without its WHERE
ClaimTable_All(d, u, table) ==
    [d EXCEPT ![RowsOf(table)[1]] = [i \in 1..Len(@) |-> [@[i] EXCEPT !.owner_id = u]]]

ClaimTable(d, u, table) == [d EXCEPT ![RowsOf(table)[1]] = ClaimRows(@, u)]

\* The body of POST /admin/claim/<table> by the signed-in user u
AdminClaimPost(d, u, table) ==
    IF ~IsAdmin(d, u) THEN [db |-> d, status |-> 403]
    ELSE IF table \notin ClaimTables THEN [db |-> d, status |-> 400]
    ELSE [db |-> ClaimTable(d, u, table), status |-> 302]

\* SELECT * FROM cows WHERE owner_id=? ORDER BY tag COLLATE NOCASE: the
\* tags of the model are digits, which NOCASE leaves as they are
CowsOf(d, o) ==
    LET mine == {i \in 1..Len(d.cows) : d.cows[i].owner_id = o}
        before(i, j) == LexLess(d.cows[i].tag, d.cows[j].tag)
                        \/ (d.cows[i].tag = d.cows[j].tag /\ i < j)
        rank(i) == 1 + Cardinality({j \in mine : before(j, i)})
    IN  [k \in 1..Cardinality(mine) |->
            d.cows[CHOOSE i \in mine : rank(i) = k].tag]

\* ---------------------------------------------------------------- handlers
Unused == UNCHANGED <<db0, pc, loc, runs, sortIn, sortOut, solo, req, resp>>

Room(n) == Len(db.milk) + n <= MaxRecords

\* POST /add
add(o, cow, litres, record_date, session_val, note, tags, price) ==
    /\ Room(1)
    /\ db' = AddPost(db, o, cow, litres, record_date, session_val, note,
                     tags, price)
    /\ Unused

\* POST /bulk
bulk_add(o, lines, default_date, default_session) ==
    /\ Room(Len(lines))
    /\ db' = BulkLines(db, lines, default_date, default_session, o)
    /\ Unused

\* POST /import
import_csv(o, rows) ==
    /\ Room(Len(rows))
    /\ db' = CsvRows(db, rows, o)
    /\ Unused

\* POST /update/<rec_id>
update(o, rec_id, litres, session_val, note, tags, price) ==
    /\ db' = UpdatePost(db, o, rec_id, litres, session_val, note, tags, price)
    /\ Unused

\* POST /delete/<rec_id>
delete(o, rec_id) ==
    /\ db' = soft_delete_record(db, rec_id, o)
    /\ Unused

\* POST /restore/<rec_id>
restore(o, rec_id) ==
    /\ db' = restore_record(db, rec_id, o)
    /\ Unused

\* POST /admin/claim/milk_records
admin_claim(o) ==
    /\ db' = AdminClaimPost(db, o, "milk_records").db
    /\ Unused

\* The process is restarted: init_db() runs again at import
restart ==
    /\ db' = init_db(db).db
    /\ Unused

\* The free-text and price fields are left empty in these requests
BulkLineIn ==
    [cow : CowIn, litres : LitresIn, date : Opt({MaxDate}), session : Opt({"PM"}),
     tags : {""}, price : {<<>>}]

CsvRowIn ==
    [cow_number : CowIn, litres : LitresIn, record_date : DateIn,
     session : SessionIn, note : {""}, tags : {""}, price_per_litre : {<<>>}]

SeqsUpTo(S, n) == UNION {[1..k -> S] : k \in 1..n}

RecIds == 1..(MaxRecords + 1)

\* The store the application serves: init_db has run on a new store or on
\* the store of the version that had milk_records alone, created without
\* CHECK constraints, and two users have signed in (the first is the admin)
LegacyMilkStore ==
    StoreOf(With(AbsentShape, "milk_records", OldCols("milk_records")), {},
            <<>>, <<>>)

SignedIn(d) ==
    [d EXCEPT !.users = <<[email |-> "a@x", role |-> "admin", tenant_id |-> 1],
                          [email |-> "b@x", role |-> "user", tenant_id |-> 1]>>]

Init ==
    /\ db \in {SignedIn(init_db(EmptyStore).db),
               SignedIn(init_db(LegacyMilkStore).db)}
    /\ db0 = db
    /\ pc = [w \in Workers |-> Idle]
    /\ loc = [w \in Workers |-> NoLocals]
    /\ runs = <<>>
    /\ sortIn = <<>>
    /\ sortOut = <<>>
    /\ NoRequest

Next ==
    \/ \E o \in Owners, cow \in CowIn \cup {<<>>}, litres \in LitresIn,
          d \in DateIn, s \in SessionIn : add(o, cow, litres, d, s, "", "", <<>>)
    \/ \E o \in Owners, lines \in SeqsUpTo(BulkLineIn, MaxLines),
          d \in DateIn, s \in SessionIn : bulk_add(o, lines, d, s)
    \/ \E o \in Owners, rows \in SeqsUpTo(CsvRowIn, MaxLines) : import_csv(o, rows)
    \/ \E o \in Owners, id \in RecIds, litres \in Opt(LitresIn),
          s \in Opt(SessionIn) : update(o, id, litres, s, "", "", <<>>)
    \/ \E o \in Owners, id \in RecIds : delete(o, id)
    \/ \E o \in Owners, id \in RecIds : restore(o, id)
    \/ \E o \in Owners : admin_claim(o)
    \/ restart

Spec == Init /\ [][Next]_vars

\* ------------------------------------------------- one user beside another
\* Two runs of the application from the same store: in db both users act,
\* in solo only user A does; A sends the same requests to both. A names a
\* record to delete or restore by its place in their own list, since the
\* row ids of the two runs differ
UserA == 1

UserB == 2

OwnIds(d, o) ==
    LET mine == {i \in 1..Len(d.milk) : d.milk[i].owner_id = o}
    IN  [k \in 1..Cardinality(mine) |->
            CHOOSE i \in mine : Cardinality({j \in mine : j < i}) = k - 1]

NthOwn(d, o, k) == IF k \in DOMAIN OwnIds(d, o) THEN OwnIds(d, o)[k] ELSE 0

Both(f(_)) ==
    /\ db' = f(db)
    /\ solo' = f(solo)
    /\ UNCHANGED <<db0, pc, loc, runs, sortIn, sortOut, req, resp>>

Other(f(_)) ==
    /\ db' = f(db)
    /\ UNCHANGED <<db0, pc, loc, runs, sortIn, sortOut, solo, req, resp>>

AAdds(cow, litres, d, s) ==
    /\ Room(1)
    /\ LET f(x) == AddPost(x, UserA, cow, litres, d, s, "", "", <<>>) IN Both(f)

ADeletes(k) ==
    LET f(x) == soft_delete_record(x, NthOwn(x, UserA, k), UserA) IN Both(f)

ARestores(k) ==
    LET f(x) == restore_record(x, NthOwn(x, UserA, k), UserA) IN Both(f)

ARegisters(tag) ==
    /\ Len(db.cows) < MaxCows
    /\ LET f(x) == CowsPost(x, UserA, tag, <<>>) IN Both(f)

BAdds(cow, litres, d, s) ==
    /\ Room(1)
    /\ LET f(x) == AddPost(x, UserB, cow, litres, d, s, "", "", <<>>) IN Other(f)

BUpdates(id, litres, s) ==
    LET f(x) == UpdatePost(x, UserB, id, litres, s, "", "", <<>>) IN Other(f)

BDeletes(id) == LET f(x) == soft_delete_record(x, id, UserB) IN Other(f)

BRestores(id) == LET f(x) == restore_record(x, id, UserB) IN Other(f)

BRegisters(tag) ==
    /\ Len(db.cows) < MaxCows
    /\ LET f(x) == CowsPost(x, UserB, tag, <<>>) IN Other(f)

InitIso ==
    /\ db = SignedIn(init_db(EmptyStore).db)
    /\ solo = db
    /\ db0 = db
    /\ pc = [w \in Workers |-> Idle]
    /\ loc = [w \in Workers |-> NoLocals]
    /\ runs = <<>>
    /\ sortIn = <<>>
    /\ sortOut = <<>>
    /\ req = <<>>
    /\ resp = <<>>

NextIso ==
    \/ \E cow \in CowIn, d \in Dates : AAdds(cow, 5000, d, "AM")
    \/ \E k \in RecIds : ADeletes(k)
    \/ \E k \in RecIds : ARestores(k)
    \/ \E tag \in CowIn \cup {<<>>} : ARegisters(tag)
    \/ \E cow \in CowIn, d \in Dates : BAdds(cow, 4, d, "PM")
    \/ \E id \in RecIds : BUpdates(id, <<5000>>, <<>>)
    \/ \E id \in RecIds : BDeletes(id)
    \/ \E id \in RecIds : BRestores(id)
    \/ \E tag \in CowIn \cup {<<>>} : BRegisters(tag)

SpecIso == InitIso /\ [][NextIso]_vars

\* ----------------------------------------------- the pivot over any table
\* The rows add_record can have stored (on a store that declares the CHECK)
CowList == <<Cow2, Cow10>>

LitresList == <<4, 5000>>

StoredRecords ==
    [cow_number : Range(CowList), litres : Range(LitresList),
     record_date : Dates, session : Range(sessions), note : {<<"fresh">>},
     tags : {<<>>}, price_per_litre : {<<2>>}, deleted : {0},
     owner_id : Owners, edited_at : {<<>>}]

IndexIn(list, x) == CHOOSE i \in 1..Len(list) : list[i] = x

\* A rank of the stored rows, to draw each table once whatever the order
\* its rows were inserted in (the pivot reads rows by value, never by id)
Rank(r) ==
    (((IndexIn(CowList, r.cow_number) * 10 + r.record_date) * 10
        + IndexIn(sessions, r.session)) * 10 + r.owner_id) * 10
    + IndexIn(LitresList, r.litres)

Tables_Upto(n) ==
    UNION {{m \in [1..k -> StoredRecords] :
               \A i \in 1..(k - 1) : Rank(m[i]) <= Rank(m[i + 1])} : k \in 0..n}

\* A table with more dates than the widest window: one row a day
LongTable ==
    [i \in 1..(MaxWindow + 2) |->
        [cow_number |-> Cow2, litres |-> LitresList[2], record_date |-> i,
         session |-> sessions[1], note |-> <<>>, tags |-> <<>>,
         price_per_litre |-> <<>>, deleted |-> 0, owner_id |-> 1,
         edited_at |-> <<>>]]

InitPivot ==
    /\ \E m \in Tables_Upto(MaxRows) \cup {LongTable} :
          db = [SignedIn(init_db(EmptyStore).db) EXCEPT !.milk = m]
    /\ db0 = db
    /\ pc = [w \in Workers |-> Idle]
    /\ loc = [w \in Workers |-> NoLocals]
    /\ runs = <<>>
    /\ sortIn = <<>>
    /\ sortOut = <<>>
    /\ NoRequest

NextPivot ==
    \/ \E o \in Owners, id \in 1..MaxRows : delete(o, id)
    \/ \E o \in Owners, id \in 1..MaxRows : restore(o, id)

SpecPivot == InitPivot /\ [][NextPivot]_vars

\* ?last= values: below the range, inside it, above it
LastIn == (0..MaxLast) \cup {MaxWindow + 1}

\* ------------------------------------------------- the insertion requests
MaxBatch == 2

FormLitres == {-1000, 5000}

AddRequests ==
    [path : {"/add"}, owner : Owners, cow : {Cow2, <<>>}, litres : FormLitres,
     date : DateIn, session : {"AM", "evening"}]

FormLineIn ==
    [cow : {Cow2}, litres : FormLitres, date : Opt({BadDate, MaxDate}),
     session : {<<>>}, tags : {""}, price : {<<>>}]

BulkRequests ==
    [path : {"/bulk"}, owner : Owners, lines : SeqsUpTo(FormLineIn, MaxBatch),
     date : DateIn, session : {"AM"}]

FormRowIn ==
    [cow_number : {Cow2}, litres : FormLitres, record_date : DateIn,
     session : {"PM", "evening"}, note : {""}, tags : {""},
     price_per_litre : {<<>>}]

ImportRequests ==
    [path : {"/import"}, owner : Owners, rows : SeqsUpTo(FormRowIn, MaxBatch)]

UpdateRequests ==
    [path : {"/update"}, owner : Owners, id : 1..MaxRecords,
     session : Opt({"PM", "evening"})]

Requests ==
    AddRequests \cup BulkRequests \cup ImportRequests \cup UpdateRequests

\* How many records the request carries
SizeOf(r) ==
    IF r.path = "/add" THEN 1
    ELSE IF r.path = "/bulk" THEN Len(r.lines)
    ELSE IF r.path = "/import" THEN Len(r.rows) ELSE 0

\* The store the handler of the request leaves
Handle(d, r) ==
    IF r.path = "/add"
    THEN AddPost(d, r.owner, r.cow, r.litres, r.date, r.session, "", "", <<>>)
    ELSE IF r.path = "/bulk"
    THEN BulkLines(d, r.lines, r.date, r.session, r.owner)
    ELSE IF r.path = "/import" THEN CsvRows(d, r.rows, r.owner)
    ELSE UpdatePost(d, r.owner, r.id, <<>>, r.session, "", "", <<>>)

\* What it tells the user: the flashed message, or the count of
\* "Imported {count} lines."
Answer(d, r) ==
    IF r.path = "/add"
    THEN [flash |-> AddFlash(d, r.owner, r.cow, r.litres, r.date, r.session,
                             "", "", <<>>)]
    ELSE [count |-> Len(Handle(d, r).milk) - Len(d.milk)]

InitForm ==
    /\ db \in {SignedIn(init_db(EmptyStore).db),
               SignedIn(init_db(LegacyMilkStore).db)}
    /\ db0 = db
    /\ req = <<>>
    /\ resp = <<>>
    /\ solo = EmptyStore
    /\ pc = [w \in Workers |-> Idle]
    /\ loc = [w \in Workers |-> NoLocals]
    /\ runs = <<>>
    /\ sortIn = <<>>
    /\ sortOut = <<>>

\* A request arrives; db0 keeps the store it finds
Receive(r) ==
    /\ req = <<>> \/ resp # <<>>
    /\ Len(db.milk) + SizeOf(r) <= MaxRecords
    /\ req' = <<r>>
    /\ resp' = <<>>
    /\ db0' = db
    /\ UNCHANGED <<db, pc, loc, runs, sortIn, sortOut, solo>>

Serve ==
    /\ req # <<>> /\ resp = <<>>
    /\ db' = Handle(db, req[1])
    /\ resp' = <<Answer(db, req[1])>>
    /\ UNCHANGED <<db0, pc, loc, runs, sortIn, sortOut, solo, req>>

NextForm ==
    \/ \E r \in Requests : Receive(r)
    \/ Serve

SpecForm == InitForm /\ [][NextForm]_vars

\* ------------------------------------------------------ signing in, /admin
MaxUsers == 3

MaxTenants == 2

MaxSetups == 2

EmailIn == {"a@x", "b@x", "c@x"}

SlugIn == {DefaultSlug, "farm", "nowhere"}

\* tenant_by_slug(slug): the id of the tenant, NULL when there is none
tenant_by_slug(d, slug) ==
    IF \E i \in 1..Len(d.tenants) : d.tenants[i].slug = slug
    THEN CHOOSE i \in 1..Len(d.tenants) : d.tenants[i].slug = slug
    ELSE NULL

\* SELECT ... FROM users WHERE email=? AND tenant_id=?: the id, or NULL
UserRow(d, email, tenant_id) ==
    LET hit == {i \in 1..Len(d.users) :
                   d.users[i].email = email /\ d.users[i].tenant_id = tenant_id}
    IN  IF hit = {} THEN NULL ELSE CHOOSE i \in hit : TRUE

\* SELECT COUNT(*) FROM users WHERE tenant_id=?
UserCount(d, tenant_id) ==
    Cardinality({i \in 1..Len(d.users) : d.users[i].tenant_id = tenant_id})

\* Variant: whoever signs in first or later is made admin
RoleFor_Admin(d, tenant_id) == "admin"

\* role = "admin" if (role_row["c"] == 0) else "user"
RoleFor(d, tenant_id) == IF UserCount(d, tenant_id) = 0 THEN "admin" ELSE "user"

\* INSERT INTO users (email, password_hash, role, created_at, tenant_id):
\* email is UNIQUE over the whole table where the table declares it
InsertUser(d, email, role, tenant_id) ==
    IF "uq_users_email" \in d.chk /\ \E i \in 1..Len(d.users) : d.users[i].email = email
    THEN [db |-> d, raised |-> TRUE]
    ELSE [db |-> [d EXCEPT !.users = Append(@, [email |-> email, role |-> role,
                                                 tenant_id |-> tenant_id])],
          raised |-> FALSE]

\* POST /login with a credential that verifies as email (verified) or
\* fails to verify: the store it leaves and its answer
LoginPost(d, slug, email, verified) ==
    LET tenant == tenant_by_slug(d, slug)
        ins == InsertUser(d, email, RoleFor(d, tenant), tenant)
    IN  IF tenant = NULL \/ ~verified
        THEN [db |-> d, status |-> 400, user |-> NULL]
        ELSE IF UserRow(d, email, tenant) # NULL
        THEN [db |-> d, status |-> 302, user |-> UserRow(d, email, tenant)]
        ELSE IF ins.raised THEN [db |-> d, status |-> 500, user |-> NULL]
        ELSE [db |-> ins.db, status |-> 302,
              user |-> UserRow(ins.db, email, tenant)]

\* POST /tenant/setup: the tenant is inserted, then its first user as admin
TenantSetupPost(d, slug, email, verified) ==
    LET made == [d EXCEPT !.tenants = Append(@, [slug |-> slug])]
        tenant == tenant_by_slug(made, slug)
        ins == InsertUser(made, email, "admin", tenant)
    IN  IF tenant_by_slug(d, slug) # NULL \/ ~verified
        THEN [db |-> d, status |-> 400, user |-> NULL]
        ELSE IF ins.raised THEN [db |-> made, status |-> 500, user |-> NULL]
        ELSE [db |-> ins.db, status |-> 302,
              user |-> UserRow(ins.db, email, tenant)]

\* GET /admin by the signed-in user u
AdminHomeStatus(d, u) == IF ~IsAdmin(d, u) THEN 403 ELSE 200

InitLogin ==
    /\ db \in {init_db(EmptyStore).db, init_db(LegacyMilkStore).db}
    /\ db0 = db
    /\ req = <<>>
    /\ resp = <<>>
    /\ solo = EmptyStore
    /\ pc = [w \in Workers |-> Idle]
    /\ loc = [w \in Workers |-> NoLocals]
    /\ runs = <<>>
    /\ sortIn = <<>>
    /\ sortOut = <<>>

Answered(r, a) ==
    /\ req' = <<r>>
    /\ resp' = <<[status |-> a.status, user |-> a.user]>>
    /\ UNCHANGED <<db0, pc, loc, runs, sortIn, sortOut, solo>>

login(slug, email, verified) ==
    LET a == LoginPost(db, slug, email, verified)
    IN  /\ Len(a.db.users) <= MaxUsers
        /\ db' = a.db
        /\ Answered([path |-> "/login", slug |-> slug, email |-> email], a)

tenant_setup(slug, email, verified) ==
    LET a == TenantSetupPost(db, slug, email, verified)
    IN  /\ Len(a.db.users) <= MaxUsers
        /\ Len(a.db.tenants) <= MaxTenants
        /\ db' = a.db
        /\ Answered([path |-> "/tenant/setup", slug |-> slug, email |-> email], a)

admin_home(u) ==
    /\ u \in 1..Len(db.users)
    /\ db' = db
    /\ Answered([path |-> "/admin", user |-> u],
                [status |-> AdminHomeStatus(db, u), user |-> u])

NextLogin ==
    \/ \E slug \in SlugIn, email \in EmailIn, verified \in BOOLEAN :
          login(slug, email, verified)
    \/ \E slug \in SlugIn, email \in EmailIn, verified \in BOOLEAN :
          tenant_setup(slug, email, verified)
    \/ \E u \in 1..MaxUsers : admin_home(u)

SpecLogin == InitLogin /\ [][NextLogin]_vars

\* ------------------------------------------- sign-in with a credential
\* slugify(value) of the workspace texts the model sends: lower case, every
\* run of other characters a "-", no "-" at the ends
slugify(value) ==
    CASE value \in {"", " ", "!"} -> ""
      [] value = "Farm" -> "farm"
      [] value = " dairy " -> "dairy"
      [] OTHER -> value

\* slug = slugify(slug_input or name) of a set-up form f
SlugOf(f) == slugify(IF f.slug # "" THEN f.slug ELSE f.name)

\* TENANT_SETTINGS_LOOKUP[slug]["mock_users"]: the configured tenant has one
\* mock user, a tenant made by /tenant/setup has no settings
SettingsMockUsers(slug) ==
    IF slug = DefaultSlug THEN <<[email |-> "a@x", credential |-> "tokA"]>>
    ELSE <<>>

\* SELECT email, credential FROM tenant_mock_users WHERE tenant_id=?
tenant_mock_users_from_db(d, tenant_id) ==
    SelectSeq(d.mock, LAMBDA m : m.tenant_id = tenant_id)

\* tenant["mock_users"]: the settings' list extended by the stored rows
MockUsers(d, slug, tenant_id) ==
    SettingsMockUsers(slug) \o tenant_mock_users_from_db(d, tenant_id)

\* mock_lookup[token] = email over the entries in order: the last one wins
MockLookup(mock_users, credential) ==
    LET hit == {i \in 1..Len(mock_users) :
                   /\ mock_users[i].credential = credential
                   /\ mock_users[i].credential # ""
                   /\ mock_users[i].email # ""}
    IN  IF hit = {} THEN <<>>
        ELSE <<mock_users[CHOOSE i \in hit : \A j \in hit : j <= i].email>>

\* id_token.verify_oauth2_token: the email claim of a token Google signed,
\* nothing for any other text (the call raises)
id_token_email(credential) == IF credential = "gtokC" THEN <<"c@x">> ELSE <<>>

\* Variant: the email hint is not compared with the credential's email
verify_google_credential_AnyHint(credential, mock_users, email_hint) ==
    LET g == id_token_email(credential)
        m == MockLookup(mock_users, credential)
    IN  IF credential # "" /\ g # <<>> THEN [raised |-> FALSE, email |-> g[1]]
        ELSE IF credential # "" /\ m # <<>> THEN [raised |-> FALSE, email |-> m[1]]
        ELSE [raised |-> TRUE, email |-> ""]

\* verify_google_credential(credential, tenant, email_hint): the verified
\* email, or ValueError. An error inside the Google branch is swallowed and
\* the mock users are tried
verify_google_credential(credential, mock_users, email_hint) ==
    LET g == id_token_email(credential)
        m == MockLookup(mock_users, credential)
    IN  IF credential # "" /\ g # <<>> /\ (email_hint = "" \/ email_hint = g[1])
        THEN [raised |-> FALSE, email |-> g[1]]
        ELSE IF credential # "" /\ m # <<>>
        THEN IF email_hint # "" /\ email_hint # m[1]
             THEN [raised |-> TRUE, email |-> ""]
             ELSE [raised |-> FALSE, email |-> m[1]]
        ELSE [raised |-> TRUE, email |-> ""]

\* Variant: the mock user of the form is not stored
InsertMockUser_Skip(d, tenant_id, email, credential) == d

\* INSERT OR REPLACE INTO tenant_mock_users: a row of the same
\* (tenant_id, credential) is removed, the new row is appended
InsertMockUser(d, tenant_id, email, credential) ==
    [d EXCEPT !.mock =
        Append(SelectSeq(@, LAMBDA m : ~(m.tenant_id = tenant_id /\ m.credential = credential)),
               [tenant_id |-> tenant_id, email |-> email, credential |-> credential])]

Refused(d) == [db |-> d, status |-> 400, user |-> NULL]

\* POST /login with the form fields tenant, credential and email_hint
LoginForm(d, tenant_slug_raw, credential_raw, email_hint) ==
    LET tenant_slug == slugify(Strip(tenant_slug_raw))
        credential == Strip(credential_raw)
        tenant == tenant_by_slug(d, tenant_slug)
        v == verify_google_credential(credential, MockUsers(d, tenant_slug, tenant), email_hint)
    IN  IF tenant_slug = "" THEN Refused(d)
        ELSE IF tenant = NULL THEN Refused(d)
        ELSE IF credential = "" THEN Refused(d)
        ELSE IF v.raised THEN Refused(d)
        ELSE LoginPost(d, tenant_slug, v.email, TRUE)

\* POST /tenant/setup with the form f: validation, verification against the
\* mock user of the form, then three writes, each committed on its own:
\* the tenant, its mock user, its admin user
TenantSetupForm(d, f) ==
    LET slug == SlugOf(f)
        temp == IF f.mock_email # "" /\ f.mock_credential # ""
                THEN <<[email |-> f.mock_email, credential |-> f.mock_credential]>>
                ELSE <<>>
        v == verify_google_credential(
                 IF f.credential # "" THEN f.credential ELSE f.mock_credential, temp,
                 IF f.email_hint # "" THEN f.email_hint ELSE f.mock_email)
        made == [d EXCEPT !.tenants = Append(@, [slug |-> slug])]
        tenant == tenant_by_slug(made, slug)
        mocked == IF f.mock_email # "" /\ f.mock_credential # ""
                  THEN InsertMockUser(made, tenant, v.email, f.mock_credential)
                  ELSE made
        ins == InsertUser(mocked, v.email, "admin", tenant)
    IN  IF \/ f.name = ""
           \/ slug = ""
           \/ tenant_by_slug(d, slug) # NULL
           \/ f.google_client_id = ""
           \/ (f.credential = "" /\ f.mock_credential = "")
        THEN Refused(d)
        ELSE IF v.raised THEN Refused(d)
        ELSE IF ins.raised THEN [db |-> mocked, status |-> 500, user |-> NULL]
        ELSE [db |-> ins.db, status |-> 302, user |-> UserRow(ins.db, v.email, tenant)]

\* The forms the model posts
SetupForms ==
    [path : {"/tenant/setup"}, name : {"", "Farm"}, slug : {"", " dairy "},
     google_client_id : {"", "cid"}, credential : {"", "gtokC"},
     email_hint : {"", "a@x"}, mock_email : {"", "a@x"},
     mock_credential : {"", "tokB"}]

LoginForms ==
    [path : {"/login"}, tenant : {" ", DefaultSlug, "Farm", "dairy", "nowhere"},
     credential : {" ", "tokA", "tokB", "gtokC"},
     email_hint : {"", "a@x", "c@x"}]

\* A store made by this version, no request answered yet
InitSignIn ==
    /\ db = init_db(EmptyStore).db
    /\ db0 = db
    /\ req = <<>>
    /\ resp = <<>>
    /\ solo = EmptyStore
    /\ pc = [w \in Workers |-> Idle]
    /\ loc = [w \in Workers |-> NoLocals]
    /\ runs = <<>>
    /\ sortIn = <<>>
    /\ sortOut = <<>>

\* One request answered: the request, the answer, the store before it and,
\* in runs, the set-ups that succeeded
Served(r, a, made) ==
    /\ Len(a.db.users) <= MaxUsers
    /\ Len(a.db.tenants) <= MaxSetups + 1
    /\ db' = a.db
    /\ db0' = db
    /\ req' = <<r>>
    /\ resp' = <<[status |-> a.status, user |-> a.user]>>
    /\ runs' = runs \o made
    /\ UNCHANGED <<pc, loc, sortIn, sortOut, solo>>

login_post(r) == Served(r, LoginForm(db, r.tenant, r.credential, r.email_hint), <<>>)

tenant_setup_post(f) ==
    LET a == TenantSetupForm(db, f)
    IN  Served(f, a, IF a.status = 302
                     THEN <<[slug |-> SlugOf(f), email |-> f.mock_email,
                             credential |-> f.mock_credential, user |-> a.user]>>
                     ELSE <<>>)

NextSignIn ==
    \/ \E r \in LoginForms : login_post(r)
    \/ \E f \in SetupForms : tenant_setup_post(f)

SpecSignIn == InitSignIn /\ [][NextSignIn]_vars

\* ------------------------------------------ sign-ins served at the same time
\* Each request is served by its own thread or process, and each query and
\* each exec_write of login opens its own connection: the statements of two
\* requests interleave, one statement at a time
At(w, st) == pc[w].st = st

Goto(w, st) == pc' = [pc EXCEPT ![w] = [st |-> st, at |-> 0]]

\* A POST /login for tenant slug arrives with a credential that verifies
\* as email
LoginBegin(w, slug, email) ==
    /\ At(w, "idle")
    /\ tenant_by_slug(db, slug) # NULL
    /\ Goto(w, "select")
    /\ loc' = [loc EXCEPT ![w] = [email |-> email, tenant |-> tenant_by_slug(db, slug),
                                  role |-> ""]]
    /\ UNCHANGED <<db, db0, runs, sortIn, sortOut, solo, req, resp>>

\* SELECT ... FROM users WHERE email=? AND tenant_id=?: a user who has a
\* row is signed in, for any other the count is taken next
LoginSelect(w) ==
    /\ At(w, "select")
    /\ IF UserRow(db, loc[w].email, loc[w].tenant) # NULL
       THEN Goto(w, "idle") /\ loc' = [loc EXCEPT ![w] = NoLocals]
       ELSE Goto(w, "count") /\ loc' = loc
    /\ UNCHANGED <<db, db0, runs, sortIn, sortOut, solo, req, resp>>

\* SELECT COUNT(*) FROM users WHERE tenant_id=? and the role it gives
LoginCount(w) ==
    /\ At(w, "count")
    /\ Goto(w, "insert")
    /\ loc' = [loc EXCEPT ![w].role = RoleFor(db, loc[w].tenant)]
    /\ UNCHANGED <<db, db0, runs, sortIn, sortOut, solo, req, resp>>

\* INSERT INTO users (...) with the role computed before; the request ends
\* with the user signed in, or with the error of the INSERT
LoginInsert(w) ==
    /\ At(w, "insert")
    /\ Len(db.users) < MaxUsers
    /\ db' = InsertUser(db, loc[w].email, loc[w].role, loc[w].tenant).db
    /\ Goto(w, "idle")
    /\ loc' = [loc EXCEPT ![w] = NoLocals]
    /\ UNCHANGED <<db0, runs, sortIn, sortOut, solo, req, resp>>

InitRace == InitLogin

NextRace ==
    \E w \in Workers :
        \/ \E slug \in SlugIn, email \in EmailIn : LoginBegin(w, slug, email)
        \/ LoginSelect(w)
        \/ LoginCount(w)
        \/ LoginInsert(w)

SpecRace == InitRace /\ [][NextRace]_vars

\* ----------------------------------- cows, health, breeding, admin claim
MaxEvents == 3

\* Rows of a store that an older version filled before the tables had
\* owner_id: the column was added as NULL; beside them rows user B stored
UnownedMilk == [OldMilkRow EXCEPT !.deleted = 0, !.owner_id = NULL]

FarmStore ==
    [SignedIn(init_db(EmptyStore).db) EXCEPT
        !.milk = <<UnownedMilk, [UnownedMilk EXCEPT !.owner_id = UserB]>>,
        !.cows = <<[tag |-> Cow10, name |-> <<"Old">>, owner_id |-> NULL]>>,
        !.health = <<[cow_tag |-> Cow10, event_date |-> 1, event_type |-> "vet",
                      details |-> <<"mastitis">>, owner_id |-> NULL],
                     [cow_tag |-> Cow2, event_date |-> 1, event_type |-> "vet",
                      details |-> <<>>, owner_id |-> UserB]>>,
        !.breeding = <<[cow_tag |-> Cow10, event_date |-> 1, event_type |-> "AI",
                        sire |-> <<"Rex">>, owner_id |-> NULL],
                       [cow_tag |-> Cow2, event_date |-> 1, event_type |-> "AI",
                        sire |-> <<>>, owner_id |-> UserB]>>]

InitFarm ==
    /\ db = FarmStore
    /\ db0 = db
    /\ req = <<>>
    /\ resp = <<>>
    /\ solo = EmptyStore
    /\ pc = [w \in Workers |-> Idle]
    /\ loc = [w \in Workers |-> NoLocals]
    /\ runs = <<>>
    /\ sortIn = <<>>
    /\ sortOut = <<>>

\* The request r is answered with the status; db0 keeps the store it found
Replied(r, status) ==
    /\ req' = <<r>>
    /\ resp' = <<[status |-> status]>>
    /\ db0' = db
    /\ UNCHANGED <<pc, loc, runs, sortIn, sortOut, solo>>

\* POST /cows
cows_screen(o, tag, name) ==
    /\ Len(db.cows) < MaxCows
    /\ db' = CowsPost(db, o, tag, name)
    /\ Replied([path |-> "/cows", user |-> o, tag |-> tag, name |-> name], 200)

\* POST /health
health_screen(o, cow_tag, event_date, event_type, details) ==
    /\ Len(db.health) < MaxEvents
    /\ db' = HealthPost(db, o, cow_tag, event_date, event_type, details)
    /\ Replied([path |-> "/health", user |-> o], 200)

\* POST /breeding
breeding_screen(o, cow_tag, event_date, event_type, sire) ==
    /\ Len(db.breeding) < MaxEvents
    /\ db' = BreedingPost(db, o, cow_tag, event_date, event_type, sire)
    /\ Replied([path |-> "/breeding", user |-> o], 200)

\* POST /admin/claim/<table>
AdminClaim(u, table) ==
    /\ db' = AdminClaimPost(db, u, table).db
    /\ Replied([path |-> "/admin/claim", user |-> u, table |-> table],
               AdminClaimPost(db, u, table).status)

NextFarm ==
    \/ \E o \in Owners, tag \in {Cow2, Cow10, <<>>},
          name \in {<<>>, <<"Daisy">>, <<"Bella">>} : cows_screen(o, tag, name)
    \/ \E o \in Owners, tag \in {Cow2, <<>>}, d \in {1, BadDate},
          type \in {"vet", ""} : health_screen(o, tag, d, type, <<>>)
    \/ \E o \in Owners, tag \in {Cow2, <<>>}, d \in {1, BadDate},
          type \in {"AI", ""} : breeding_screen(o, tag, d, type, <<"Rex">>)
    \/ \E u \in Owners, table \in ClaimTables \cup {"users"} : AdminClaim(u, table)

SpecFarm == InitFarm /\ [][NextFarm]_vars

\* ------------------------------------------------------------ GET /recent
\* Prices are in hundredths of the currency, litres and gains in
\* thousandths: the product of the two is in hundred-thousandths
DefaultLimit == 150

MinLimit == 1

MaxLimit == 500

\* int(request.args.get("limit", "150")), 150 on ValueError, then
\* max(1, min(limit, 500)); arg is <<>> when the query has no limit
LimitArg(arg) ==
    LET text == StripBlanks(IF arg = <<>> THEN <<49, 53, 48>> ELSE arg[1])
        limit == IF IsInt(text) THEN IntValue(text) ELSE DefaultLimit
        capped == IF limit < MaxLimit THEN limit ELSE MaxLimit
    IN  IF capped > MinLimit THEN capped ELSE MinLimit

\* round(litres_val * price_val, 2), in thousandths; a tie goes to the even
\* hundredth
Gain(litres, price) ==
    LET p == litres * price
        q == p \div 1000
        r == p % 1000
    IN  10 * (IF r < 500 THEN q
              ELSE IF r > 500 THEN q + 1
              ELSE IF q % 2 = 0 THEN q ELSE q + 1)

\* Variant: a row without a price gets the gain 0
RecentItem_ZeroGain(d, i) ==
    LET r == d.milk[i]
    IN  [id |-> i, cow_number |-> r.cow_number, litres |-> Round2(r.litres),
         price_per_litre |-> r.price_per_litre,
         gain |-> IF r.price_per_litre # <<>>
                  THEN <<Gain(r.litres, r.price_per_litre[1])>> ELSE <<0>>,
         deleted |-> r.deleted]

\* The item /recent shows for row i: litres rounded to two decimals, the
\* price, and the gain where the row has a price
RecentItem(d, i) ==
    LET r == d.milk[i]
    IN  [id |-> i, cow_number |-> r.cow_number, litres |-> Round2(r.litres),
         price_per_litre |-> r.price_per_litre,
         gain |-> IF r.price_per_litre # <<>>
                  THEN <<Gain(r.litres, r.price_per_litre[1])>> ELSE <<>>,
         deleted |-> r.deleted]

\* The ids of the rows of owner o, the greatest first
RECURSIVE IdsDesc(_, _, _)
IdsDesc(d, o, i) ==
    IF i = 0 THEN <<>>
    ELSE (IF d.milk[i].owner_id = o THEN <<i>> ELSE <<>>) \o IdsDesc(d, o, i - 1)

\* SELECT ... FROM milk_records WHERE owner_id=? ORDER BY id DESC LIMIT ?
\* and the items made of the rows
recent_screen(d, o, arg) ==
    LET ids == IdsDesc(d, o, Len(d.milk))
        n == IF Len(ids) < LimitArg(arg) THEN Len(ids) ELSE LimitArg(arg)
    IN  [k \in 1..n |-> RecentItem(d, ids[k])]

\* "150", no limit, "0", "2", "many"
LimitIn == {<<>>, <<<<48>>>>, <<<<50>>>>, <<<<109, 97, 110, 121>>>>}

PriceIn == Opt({73, 37})

RecentAdds ==
    [path : {"/add"}, owner : Owners, cow : {Cow2, <<>>}, litres : {-1000, 9100},
     date : {BadDate, MaxDate}, price : PriceIn]

InitRecent == InitForm

\* POST /add of the form r by its signed-in user
add_priced(r) ==
    /\ Len(db.milk) < MaxRecords
    /\ db' = AddPost(db, r.owner, r.cow, r.litres, r.date, "AM", "", "", r.price)
    /\ db0' = db
    /\ req' = <<r>>
    /\ resp' = <<[flash |-> AddFlash(db, r.owner, r.cow, r.litres, r.date, "AM", "", "", r.price)]>>
    /\ UNCHANGED <<pc, loc, runs, sortIn, sortOut, solo>>

\* GET /recent?limit=... by the signed-in user o
recent(o, arg) ==
    /\ req' = <<[path |-> "/recent", owner |-> o, limit |-> arg]>>
    /\ resp' = <<[rows |-> recent_screen(db, o, arg)]>>
    /\ db0' = db
    /\ UNCHANGED <<db, pc, loc, runs, sortIn, sortOut, solo>>

NextRecent ==
    \/ \E r \in RecentAdds : add_priced(r)
    \/ \E o \in Owners, arg \in LimitIn : recent(o, arg)

SpecRecent == InitRecent /\ [][NextRecent]_vars

\* ------------------------------------------------ GET /records?last=...
\* The characters of the query value: "0", "1", "9", "-", "a", " "
LastChars == {48, 49, 57, 45, 97, 32}

MaxText == 3

LastTexts == {<<>>} \cup SeqsUpTo(LastChars, MaxText)

InitLast ==
    /\ req \in Opt(LastTexts)
    /\ resp = <<>>
    /\ solo = EmptyStore
    /\ db = SignedIn(init_db(EmptyStore).db)
    /\ db0 = db
    /\ pc = [w \in Workers |-> Idle]
    /\ loc = [w \in Workers |-> NoLocals]
    /\ runs = <<>>
    /\ sortIn = <<>>
    /\ sortOut = <<>>

\* The handler answers with the page for the window
ServeRecords ==
    /\ resp = <<>>
    /\ resp' = <<[status |-> 200, last |-> WindowOf(req)]>>
    /\ UNCHANGED <<db, db0, pc, loc, runs, sortIn, sortOut, solo, req>>

NextLast == ServeRecords

SpecLast == InitLast /\ [][NextLast]_vars

\* ------------------------------------------------- sorted() over any keys
\* "2", "10", "02", "-3", "abc", "Zed", "1a", ""
SortCowIn ==
    {Cow2, Cow10, <<48, 50>>, <<45, 51>>, CowAbc, <<90, 101, 100>>,
     <<49, 97>>, <<>>}

\* The keys of by_cow, in any order the query may hand them out
InitSort ==
    /\ sortIn \in {k \in SeqsUpTo(SortCowIn, MaxCows) :
                       \A i, j \in 1..Len(k) : i # j => k[i] # k[j]}
    /\ sortOut = <<>>
    /\ NoRequest
    /\ db = EmptyStore
    /\ db0 = db
    /\ pc = [w \in Workers |-> Idle]
    /\ loc = [w \in Workers |-> NoLocals]
    /\ runs = <<>>

\* for cow in sorted(by_cow.keys(), key=cow_key)
SortKeys ==
    /\ sortOut = <<>>
    /\ sortOut' = <<SortedCows(sortIn)>>
    /\ UNCHANGED <<db, db0, pc, loc, runs, sortIn, solo, req, resp>>

NextSort == SortKeys

SpecSort == InitSort /\ [][NextSort]_vars

\* --------------------------------------------------------------- C1 .. C7
\* The owner's non-deleted rows, stated from the table alone
Own(o) == {i \in 1..Len(db.milk) : db.milk[i].owner_id = o /\ db.milk[i].deleted = 0}

OwnDates(o) == {db.milk[i].record_date : i \in Own(o)}

Clamped(w) == IF w < 1 THEN 1 ELSE IF w > 90 THEN 90 ELSE w

Litres(I) == SumLitres(db.milk, I)

C2_RowsAndCellSums ==
    \A o \in Owners, w \in LastIn :
        LET v == records_screen(db.milk, o, w)
            inw == {i \in Own(o) : db.milk[i].record_date \in Range(v.dates)}
        IN  /\ {v.rows[k].cow : k \in 1..Len(v.rows)}
                  = {db.milk[i].cow_number : i \in inw}
            /\ \A k, n \in 1..Len(v.rows) : k # n => v.rows[k].cow # v.rows[n].cow
            /\ \A k \in 1..Len(v.rows), a \in 1..Len(v.dates), b \in 1..2 :
                  v.rows[k].cells[2 * (a - 1) + b]
                     = Round2(Litres({i \in Own(o) :
                                         /\ db.milk[i].cow_number = v.rows[k].cow
                                         /\ db.milk[i].record_date = v.dates[a]
                                         /\ db.milk[i].session = sessions[b]}))

\* The scenario of the specification with 5.0 litres throughout: cow 2 AM
\* and PM, cow 10 AM, one date, window 1
C2_Witness ==
    /\ Len(db.milk) = 3
    /\ \A i \in 1..3 : db.milk[i].owner_id = 1 /\ db.milk[i].deleted = 0
                        /\ db.milk[i].record_date = 1 /\ db.milk[i].litres = 5000
    /\ {<<db.milk[i].cow_number, db.milk[i].session>> : i \in 1..3}
          = {<<Cow2, "AM">>, <<Cow2, "PM">>, <<Cow10, "AM">>}
    /\ records_screen(db.milk, 1, 1)
          = [dates |-> <<1>>,
             rows  |-> <<[cow |-> Cow2, cells |-> <<5000, 5000>>, total |-> 10000],
                         [cow |-> Cow10, cells |-> <<5000, 0>>, total |-> 5000]>>]

\* C3: the grid is dense: every row has len(dates) * len(sessions) cells, in
\* date order and AM before PM within a date, and the cell of a (cow, date,
\* session) with no non-deleted record of the owner is 0.0.
C3_GridIsDense ==
    \A o \in Owners, w \in LastIn :
        LET v == records_screen(db.milk, o, w)
        IN  \A k \in 1..Len(v.rows) :
               /\ Len(v.rows[k].cells) = Len(v.dates) * 2
               /\ \A a \in 1..Len(v.dates), b \in 1..2 :
                     LET recs == {i \in Own(o) :
                                     /\ db.milk[i].cow_number = v.rows[k].cow
                                     /\ db.milk[i].record_date = v.dates[a]
                                     /\ db.milk[i].session = sessions[b]}
                     IN  /\ recs = {} => v.rows[k].cells[2 * (a - 1) + b] = 0
                         /\ v.rows[k].cells[2 * (a - 1) + b] > 0 => recs # {}

\* A cow with a single PM record on the later of two dates: three of its
\* four cells are empty combinations
C3_Witness ==
    \E k \in 1..Len(records_screen(db.milk, 1, 2).rows) :
        /\ records_screen(db.milk, 1, 2).dates = <<1, 2>>
        /\ records_screen(db.milk, 1, 2).rows[k].cells = <<0, 0, 0, 5000>>

\* C4 as claimed: the total of every pivot row is the 2-decimal rounding of
\* the sum of the cells emitted in the row.
C4_TotalIsRoundedSumOfCells ==
    \A o \in Owners, w \in LastIn :
        LET v == records_screen(db.milk, o, w)
        IN  \A k \in 1..Len(v.rows) :
               v.rows[k].total = Round2(SeqSum(v.rows[k].cells))

\* C4 as the code computes it: the total of every pivot row is the 2-decimal
\* rounding of the sum of the unrounded litres of the cow's non-deleted
\* records of the owner on the dates of the window.
C4_TotalIsRoundedSumOfLitres ==
    \A o \in Owners, w \in LastIn :
        LET v == records_screen(db.milk, o, w)
        IN  \A k \in 1..Len(v.rows) :
               v.rows[k].total
                  = Round2(Litres({i \in Own(o) :
                                      /\ db.milk[i].cow_number = v.rows[k].cow
                                      /\ db.milk[i].record_date \in Range(v.dates)}))

\* A row whose cells 0.004 and 0.004 both round to 0.00 and whose total is
\* round(0.008, 2) = 0.01
C4_Witness ==
    \E k \in 1..Len(records_screen(db.milk, 1, 1).rows) :
        /\ records_screen(db.milk, 1, 1).rows[k].cells = <<0, 0>>
        /\ records_screen(db.milk, 1, 1).rows[k].total = 10

\* The order the claim gives: integer-parsable first by value, then the
\* rest by text
InClaimedOrder(a, b) ==
    IF IsInt(a) /\ IsInt(b) THEN IntValue(a) <= IntValue(b)
    ELSE IF IsInt(a) THEN TRUE
    ELSE IF IsInt(b) THEN FALSE
    ELSE ~LexLess(b, a)

\* C5: the rows are emitted in the order of the key (0, int(cow)) for a cow
\* that parses as an integer and (1, cow) otherwise: the integer-parsable
\* cows first in ascending numeric order, then the others in text order;
\* every key is emitted once.
C5_CowOrder ==
    sortOut # <<>> =>
        LET out == sortOut[1]
        IN  /\ Len(out) = Len(sortIn)
            /\ Range(out) = Range(sortIn)
            /\ \A i, j \in 1..Len(out) : i < j => InClaimedOrder(out[i], out[j])

\* ["10", "2", "abc"] is emitted as ["2", "10", "abc"]
C5_Witness ==
    /\ sortIn = <<Cow10, Cow2, CowAbc>>
    /\ sortOut = <<(<<Cow2, Cow10, CowAbc>>)>>

HasColumns(d, cs(_)) ==
    \A t \in Tables : has_table(d, t) /\ cs(t) \subseteq Range(d.cols[t])

MigratedCols(t) == Range(Migrated(t))

\* C8: init_db run twice in succession on the same store: when the first run
\* returned, the second run raises nothing and leaves the store (tables,
\* columns, indexes, constraints, tenant and user rows) as the first left it.
C8_SecondRunChangesNothing ==
    \A k \in 2..Len(runs) :
        ~runs[k - 1].raised =>
            ~runs[k].raised /\ runs[k].db = runs[k - 1].db

\* A second run ended after a first run that had columns to add and the
\* default tenant to insert
C8_Witness ==
    /\ Len(runs) = 2
    /\ ~runs[1].raised
    /\ ~runs[2].raised
    /\ has_table(db0, "milk_records")
    /\ "session" \notin Range(db0.cols["milk_records"])
    /\ db0.tenants = <<>>
    /\ Len(db.tenants) = 1

\* C9 as claimed: from any prior schema state, when init_db returns without
\* raising, every required table exists with every column of its CREATE TABLE.
C9_AllDesiredColumns ==
    \A k \in 1..Len(runs) : ~runs[k].raised => HasColumns(runs[k].db, AllCols)

\* C9 as the code ensures it: when init_db returns without raising, every
\* required table exists with every column init_db migrates (the columns it
\* adds by ALTER TABLE when column_names lacks them).
C9_TablesAndMigratedColumns ==
    \A k \in 1..Len(runs) :
        ~runs[k].raised => HasColumns(runs[k].db, MigratedCols)

\* init_db returned on a store that had a table without its migrated
\* columns and lacked another table altogether
C9_Witness ==
    /\ Len(runs) >= 1
    /\ ~runs[1].raised
    /\ has_table(db0, "cows")
    /\ "owner_id" \notin Range(db0.cols["cows"])
    /\ ~has_table(db0, "milk_records")

\* C10: workers running init_db concurrently on one store: no invocation
\* raises, and once all have ended the store is the one a single run leaves.
C10_ConcurrentRunsAllSucceed ==
    /\ \A w \in Workers : pc[w].st # "raised"
    /\ (\A w \in Workers : Ended(w)) => db = init_db(db0).db

\* ---------------------------------------------------------------- C11, C12
\* The store an ended run started on (one process, run after run)
StartOf(k) == IF k = 1 THEN db0 ELSE runs[k - 1].db

Rows(d, t) == d[RowsOf(t)[1]]

RowTables == {t \in Tables : RowsOf(t) # <<>>}

IsPrefix(a, b) == Len(a) <= Len(b) /\ \A i \in 1..Len(a) : a[i] = b[i]

\* No table or column of a is dropped, renamed or moved in b
KeepsColumns(a, b) ==
    \A t \in DOMAIN a.cols : t \in DOMAIN b.cols /\ IsPrefix(a.cols[t], b.cols[t])

\* No row of ra is deleted and none of its values is changed in rb
KeepsRows(ra, rb) ==
    /\ Len(ra) <= Len(rb)
    /\ \A i \in 1..Len(ra) : \A f \in DOMAIN ra[i] :
          f \in DOMAIN rb[i] /\ rb[i][f] = ra[i][f]

\* The columns the rows of ra gained in rb hold the value given by val
GainedColumnsHold(ra, rb, val(_)) ==
    \A i \in 1..Len(ra) : \A f \in DOMAIN rb[i] \ DOMAIN ra[i] : rb[i][f] = val(f)

\* C11 as claimed: init_db never drops or renames a column and never deletes
\* a row; when it adds a column, every pre-existing row keeps its values and
\* has the new column at its default/null value.
C11_AdditiveWithDefaults ==
    \A k \in 1..Len(runs) :
        /\ KeepsColumns(StartOf(k), runs[k].db)
        /\ \A t \in RowTables :
              /\ KeepsRows(Rows(StartOf(k), t), Rows(runs[k].db, t))
              /\ GainedColumnsHold(Rows(StartOf(k), t), Rows(runs[k].db, t),
                                   LAMBDA f : ColumnDefault(t, f))

\* C11 as amended: the same, except that users.tenant_id, once added, holds
\* the id of the default tenant in every pre-existing row when init_db
\* returns (it is NULL only when init_db raised after adding the column).
C11_AdditiveWithTenantBackfill ==
    \A k \in 1..Len(runs) :
        /\ KeepsColumns(StartOf(k), runs[k].db)
        /\ \A t \in RowTables :
              /\ KeepsRows(Rows(StartOf(k), t), Rows(runs[k].db, t))
              /\ GainedColumnsHold(Rows(StartOf(k), t), Rows(runs[k].db, t),
                    LAMBDA f : IF t = "users" /\ f = "tenant_id" /\ ~runs[k].raised
                               THEN DefaultTenantId(runs[k].db)
                               ELSE ColumnDefault(t, f))

\* init_db returned on an older store holding a user and a milk record: the
\* record kept its values and gained session 'AM', deleted 0, no owner
C11_Witness ==
    /\ Len(runs) >= 1
    /\ ~runs[1].raised
    /\ db0.users # <<>>
    /\ db0.milk # <<>>
    /\ DOMAIN db0.milk[1] = {"cow_number", "litres", "record_date"}
    /\ runs[1].db.milk[1]
          = [cow_number |-> Cow2, litres |-> 5000, record_date |-> 1,
             session |-> "AM", note |-> <<>>, tags |-> <<>>,
             price_per_litre |-> <<>>, deleted |-> 0, owner_id |-> NULL,
             edited_at |-> <<>>]
    /\ runs[1].db.users[1].tenant_id = 1

\* The first statement of init_db that raises when it runs alone from
\* statement i, 0 when none does
RECURSIVE FailedAt(_, _, _)
FailedAt(i, d, l) ==
    IF i > Len(Program) THEN 0
    ELSE LET r == ExecStmt(Program[i], d, l)
         IN  IF r.raised THEN i ELSE FailedAt(i + 1, r.db, r.loc)

\* C12: when an index creation fails inside init_db the failure is swallowed
\* and the remaining steps are still executed: init_db returns and every
\* later table exists.
C12_IndexFailureSwallowed ==
    \A k \in 1..Len(runs) :
        LET f == FailedAt(1, StartOf(k), NoLocals)
        IN  (f # 0 /\ Program[f].op = "index") =>
                /\ ~runs[k].raised
                /\ \A t \in Tables : has_table(runs[k].db, t)

\* ----------------------------------------------------------------- C13
\* What a user is shown: the pivot at every window and the list of cows
ViewOf(d, o) ==
    [pivot |-> [last \in 1..MaxLast |-> records_screen(d.milk, o, last)],
     cows  |-> CowsOf(d, o)]

\* C13: whatever the other user did, user A is shown what they would be
\* shown had the other user done nothing: the same pivot and the same cows,
\* so each of A's own inserts took effect in the one run as in the other
C13_OtherUserChangesNothing == ViewOf(db, UserA) = ViewOf(solo, UserA)

\* C13, the milk records alone: A's pivot is what it would be without B
C13_PivotUntouchedByOthers ==
    ViewOf(db, UserA).pivot = ViewOf(solo, UserA).pivot

C13_Witness ==
    /\ \E i \in 1..Len(db.milk) : db.milk[i].owner_id = UserB
    /\ \E i \in 1..Len(db.milk) : db.milk[i].owner_id = UserA
    /\ \E i \in 1..Len(db.milk) :
          db.milk[i].owner_id = UserA /\ db.milk[i].edited_at # <<>>
    /\ Len(solo.milk) < Len(db.milk)
\* ----------------------------------------------------------------- C14
\* A step in which user o edits: update, delete or restore of any id
EditBy(o) ==
    \/ \E id \in RecIds, litres \in Opt(LitresIn), s \in Opt(SessionIn) :
          update(o, id, litres, s, "", "", <<>>)
    \/ \E id \in RecIds : delete(o, id)
    \/ \E id \in RecIds : restore(o, id)

OthersRowsKept(o) ==
    \A i \in 1..Len(db.milk) :
        db.milk[i].owner_id # o =>
            i \in 1..Len(db'.milk) /\ db'.milk[i] = db.milk[i]

\* C14: an update, soft delete or restore by a user, whatever record id it
\* names, leaves every milk record that user does not own as it was, in
\* every field, deleted and edited_at included
C14_EditsLeaveOthersRows ==
    [][\A o \in Owners : OthersRowsKept(o) \/ ~EditBy(o)]_vars

\* Both users have a record, and one user's was edited while the other's
\* was never touched
C14_Witness ==
    \E i, j \in 1..Len(db.milk) :
        /\ db.milk[i].owner_id # db.milk[j].owner_id
        /\ db.milk[i].edited_at = <<utcnow>>
        /\ db.milk[i].deleted = 1
        /\ db.milk[j].edited_at = <<>>
\* ----------------------------------------------------------------- C15
\* Every stored row is still stored, under its id, for the same cow and day
RowsKept ==
    \A i \in 1..Len(db.milk) :
        /\ i \in 1..Len(db'.milk)
        /\ db'.milk[i].cow_number = db.milk[i].cow_number
        /\ db'.milk[i].record_date = db.milk[i].record_date

\* The store differs at most in deleted = 1 and edited_at of row rec_id
OnlyMarked(rec_id) ==
    \/ db' = db
    \/ /\ rec_id \in 1..Len(db.milk)
       /\ db' = [db EXCEPT !.milk[rec_id] =
                     [@ EXCEPT !.deleted = 1,
                               !.edited_at = db'.milk[rec_id].edited_at]]

\* C15: no step removes a milk record: the table only grows and each row
\* keeps its id; a delete changes nothing but deleted (to 1) and edited_at
\* of the row it names
C15_NeverHardDeleted ==
    [][/\ RowsKept
       /\ \A o \in Owners, id \in RecIds : delete(o, id) => OnlyMarked(id)]_vars

\* A record was deleted and is still stored, and a record was added after it
C15_Witness ==
    /\ Len(db.milk) = MaxRecords
    /\ db.milk[1].deleted = 1
    /\ db.milk[1].edited_at = <<utcnow>>
    /\ db.milk[MaxRecords].deleted = 0
\* ----------------------------------------------------------------- C16
\* db0 is the table before any delete or restore. Every row holds what it
\* held then, apart from deleted and edited_at
FieldsAsBefore ==
    /\ Len(db.milk) = Len(db0.milk)
    /\ \A i \in 1..Len(db.milk) :
          [db.milk[i] EXCEPT !.deleted = 0, !.edited_at = <<>>]
              = [db0.milk[i] EXCEPT !.deleted = 0, !.edited_at = <<>>]

\* Every record deleted since then has been restored
AllRestored ==
    \A i \in 1..Len(db.milk) : db.milk[i].deleted = db0.milk[i].deleted

PivotAsBefore ==
    \A o \in Owners, last \in LastIn :
        records_screen(db.milk, o, last) = records_screen(db0.milk, o, last)

Live(m) == SelectSeq(m, LAMBDA r : r.deleted = 0)

\* The pivot is the pivot of the table without its deleted rows
DeletedUnseen ==
    \A o \in Owners, last \in LastIn :
        records_screen(db.milk, o, last) = records_screen(Live(db.milk), o, last)

RestoreClearsFlag ==
    \A o \in Owners, id \in 1..MaxRows :
        (restore(o, id) /\ id \in 1..Len(db.milk) /\ db.milk[id].owner_id = o)
            => db'.milk[id].deleted = 0

\* C16: a restore by the owner leaves the record at deleted = 0; deleting
\* and restoring change no field of a record but deleted and edited_at, so
\* once every deleted record is restored the pivot is the pivot from before;
\* and a record that is deleted adds to no date and no cell of the pivot
C16_DeleteRestoreRoundTrip ==
    /\ [](FieldsAsBefore /\ (AllRestored => PivotAsBefore) /\ DeletedUnseen)
    /\ [][RestoreClearsFlag]_vars

\* One record went through delete and restore while another is deleted
C16_Witness ==
    \E i, j \in 1..Len(db.milk) :
        /\ db.milk[i].deleted = 0 /\ db.milk[i].edited_at = <<utcnow>>
        /\ db.milk[i].note = <<"fresh">>
        /\ db.milk[j].deleted = 1
        /\ db.milk[j].owner_id = db.milk[i].owner_id
\* ----------------------------------------------------------------- C17
\* C17: every last value is answered: an integer is clamped into 1..90, a
\* missing value or one that is no integer gives the default window, 7
C17_WindowAlwaysAccepted ==
    resp # <<>> =>
        /\ resp[1].status = 200
        /\ resp[1].last \in MinWindow..MaxWindow
        /\ (req = <<>> \/ ~IsInt(StripBlanks(req[1]))) => resp[1].last = DefaultLast
        /\ (req # <<>> /\ IsInt(StripBlanks(req[1]))) =>
              LET n == IntValue(StripBlanks(req[1]))
              IN  resp[1].last = IF n < MinWindow THEN MinWindow
                                 ELSE IF n > MaxWindow THEN MaxWindow ELSE n

\* A text that is no integer was answered
C17_Witness ==
    /\ resp # <<>>
    /\ req = <<(<<49, 97>>)>>
    /\ resp[1].last = DefaultLast

\* An integer above the range and one below it were answered
C17_WitnessClamped ==
    /\ resp # <<>>
    /\ req \in {<<(<<57, 57, 57>>)>>, <<(<<45, 49>>)>>}
\* ----------------------------------------------------------------- C18
EmptyPivot == [dates |-> <<>>, rows |-> <<>>]

\* C18: for an owner who has no record that is not deleted, the pivot at
\* every window has no dates and no rows; it is computed, not refused
C18_NoRecordsEmptyPivot ==
    \A o \in Owners, w \in LastIn :
        Own(o) = {} => records_screen(db.milk, o, w) = EmptyPivot

\* An owner has records, all of them deleted, beside an owner whose records
\* are shown
C18_Witness ==
    \E o, p \in Owners :
        /\ Own(o) = {}
        /\ \E i \in 1..Len(db.milk) : db.milk[i].owner_id = o
        /\ Own(p) # {}
\* ----------------------------------------------------------------- C19
\* The date each record of the request is inserted under
DatesOf(r) ==
    IF r.path = "/add" THEN {r.date}
    ELSE IF r.path = "/bulk"
    THEN {IF r.lines[i].date # <<>> THEN r.lines[i].date[1] ELSE r.date :
             i \in 1..Len(r.lines)}
    ELSE IF r.path = "/import"
    THEN {r.rows[i].record_date : i \in 1..Len(r.rows)}
    ELSE {}

\* C19: a record whose date is no calendar date is never stored, by the
\* form, the bulk form or the CSV import: a request all of whose records
\* have such a date leaves the stored records as they were and reports no
\* record saved
C19_BadDateRejected ==
    /\ \A i \in 1..Len(db.milk) : db.milk[i].record_date # BadDate
    /\ (resp # <<>> /\ DatesOf(req[1]) = {BadDate}) =>
          /\ db = db0
          /\ req[1].path = "/add" => resp[1].flash # "Saved!"
          /\ req[1].path # "/add" => resp[1].count = 0

\* Each path has answered a request whose only fault is the date, with
\* records already stored
C19_Witness ==
    /\ resp # <<>>
    /\ DatesOf(req[1]) = {BadDate}
    /\ Len(db.milk) > 0
    /\ req[1].path = "/bulk"
    /\ \A i \in 1..Len(req[1].lines) : req[1].lines[i].litres >= 0

C19_WitnessForm ==
    /\ resp # <<>>
    /\ req[1].path = "/add"
    /\ resp[1].flash = "Bad date. Use YYYY-MM-DD."
\* ----------------------------------------------------------------- C20
\* The users of a tenant created before user i
EarlierInTenant(i) ==
    {j \in 1..(i - 1) : db.users[j].tenant_id = db.users[i].tenant_id}

\* C20: when sign-ins are served one after another, in each tenant the
\* first user created is an admin and every user created after is a plain
\* user; /admin answers 200 to an admin and 403 to any other user
C20_FirstUserIsAdmin ==
    /\ \A i \in 1..Len(db.users) :
          db.users[i].role = IF EarlierInTenant(i) = {} THEN "admin" ELSE "user"
    /\ (resp # <<>> /\ req[1].path = "/admin") =>
          resp[1].status = IF db.users[req[1].user].role = "admin" THEN 200 ELSE 403

\* Two tenants have users, one has an admin and a later plain user, and
\* the plain user was refused /admin
C20_Witness ==
    /\ \E i, j \in 1..Len(db.users) :
          /\ i < j
          /\ db.users[i].tenant_id = db.users[j].tenant_id
          /\ db.users[i].role = "admin" /\ db.users[j].role = "user"
    /\ \E i, j \in 1..Len(db.users) : db.users[i].tenant_id # db.users[j].tenant_id
    /\ resp # <<>> /\ req[1].path = "/admin" /\ resp[1].status = 403

C20_WitnessAdmin ==
    resp # <<>> /\ req # <<>> /\ req[1].path = "/admin" /\ resp[1].status = 200
\* ----------------------------------------------------------------- C21
\* The rows of the store under every other name than f are as they were
OtherTablesKept(f) == [db EXCEPT ![f] = db0[f]] = db0

\* C21: a claim by an admin sets owner_id to the admin on the rows of the
\* named table that had no owner, and on those only: the rows that had an
\* owner and every other table are as before; a user who is no admin gets
\* 403 and an admin naming another table gets 400, the store untouched
C21_ClaimTakesUnownedOnly ==
    (resp # <<>> /\ req[1].path = "/admin/claim") =>
        LET u == req[1].user
            t == req[1].table
            f == RowsOf(t)[1]
        IN  /\ resp[1].status = IF ~IsAdmin(db0, u) THEN 403
                                ELSE IF t \notin ClaimTables THEN 400 ELSE 302
            /\ resp[1].status # 302 => db = db0
            /\ resp[1].status = 302 =>
                  /\ OtherTablesKept(f)
                  /\ Len(db[f]) = Len(db0[f])
                  /\ \A i \in 1..Len(db0[f]) :
                        db[f][i] = IF db0[f][i].owner_id = NULL
                                   THEN [db0[f][i] EXCEPT !.owner_id = u]
                                   ELSE db0[f][i]

\* An admin claimed a table holding a row without owner and a row of
\* another user
C21_Witness ==
    /\ resp # <<>> /\ req[1].path = "/admin/claim" /\ resp[1].status = 302
    /\ LET f == RowsOf(req[1].table)[1]
       IN  \E i, j \in 1..Len(db0[f]) :
               /\ db0[f][i].owner_id = NULL /\ db[f][i].owner_id = req[1].user
               /\ db0[f][j].owner_id = UserB /\ db[f][j].owner_id = UserB

C21_WitnessRefused ==
    /\ resp # <<>> /\ req[1].path = "/admin/claim"
    /\ resp[1].status \in {400, 403}

\* ----------------------------------------------------------------- C22
\* The cow form was submitted with a tag some row already had
Resubmitted ==
    /\ resp # <<>> /\ req[1].path = "/cows" /\ req[1].tag # <<>>
    /\ \E i \in 1..Len(db0.cows) : db0.cows[i].tag = req[1].tag

WithTag(d, tag) == {i \in 1..Len(d.cows) : d.cows[i].tag = tag}

\* C22: submitting the cow form with a tag that exists is an upsert: there
\* is still exactly one row with the tag, and its descriptive fields are
\* those of the latest submission
C22_ResubmitIsUpsert ==
    Resubmitted =>
        /\ Cardinality(WithTag(db, req[1].tag)) = 1
        /\ \A i \in WithTag(db, req[1].tag) : db.cows[i].name = req[1].name

\* C22 as coded: the submission is dropped; the one row with the tag keeps
\* the fields and the owner it had
C22_ResubmitIsIgnored ==
    Resubmitted =>
        /\ Cardinality(WithTag(db, req[1].tag)) = 1
        /\ db.cows = db0.cows

\* A user submitted a tag of their own again, under another name
C22_Witness ==
    /\ Resubmitted
    /\ \E i \in WithTag(db0, req[1].tag) :
          /\ db0.cows[i].owner_id = req[1].user
          /\ db0.cows[i].name # req[1].name

\* ----------------------------------------------------------------- C23
\* db0 is the store before the latest request. The row is as it was, or it
\* had no owner and was given one
KeptOrClaimed(old, new) ==
    \/ new = old
    \/ old.owner_id = NULL /\ new = [old EXCEPT !.owner_id = new.owner_id]

\* C23: health and breeding events are append-only: whatever the request,
\* every event stored before it is still stored with every field as it was
C23_EventsAppendOnly ==
    IsPrefix(db0.health, db.health) /\ IsPrefix(db0.breeding, db.breeding)

\* C23 with the admin claim: every event stored before the request is still
\* stored under its id, with every field as it was except owner_id of an
\* event that had no owner
C23_EventsAppendOnlyButClaim ==
    /\ Len(db0.health) <= Len(db.health)
    /\ Len(db0.breeding) <= Len(db.breeding)
    /\ \A i \in 1..Len(db0.health) : KeptOrClaimed(db0.health[i], db.health[i])
    /\ \A i \in 1..Len(db0.breeding) : KeptOrClaimed(db0.breeding[i], db.breeding[i])

\* A health event was added to a table whose unowned event had been claimed
C23_Witness ==
    /\ resp # <<>> /\ req[1].path = "/health"
    /\ Len(db.health) > Len(db0.health)
    /\ Len(db.breeding) > Len(FarmStore.breeding)
    /\ \E i \in 1..Len(FarmStore.health) :
          FarmStore.health[i].owner_id = NULL /\ db.health[i].owner_id # NULL

\* ----------------------------------------------------------------- C24
\* session_val if session_val in ("AM","PM") else "AM", as the claim has it
StoredSession(s) == IF s \in {"AM", "PM"} THEN s ELSE "AM"

\* C24: every stored milk record has session AM or PM, whatever was added,
\* imported or updated; a record saved by the form with another session has
\* AM, and so has a record its owner updates with another session
C24_SessionIsAmOrPm ==
    /\ \A i \in 1..Len(db.milk) : db.milk[i].session \in {"AM", "PM"}
    /\ (resp # <<>> /\ req[1].path = "/add" /\ resp[1].flash = "Saved!") =>
          db.milk[Len(db.milk)].session = StoredSession(req[1].session)
    /\ (resp # <<>> /\ req[1].path = "/update" /\ req[1].session # <<>>
        /\ req[1].id \in 1..Len(db.milk)
        /\ db.milk[req[1].id].owner_id = req[1].owner) =>
          db.milk[req[1].id].session = StoredSession(req[1].session[1])

\* A record stored with PM was updated by its owner with another session
C24_Witness ==
    /\ resp # <<>> /\ req[1].path = "/update" /\ req[1].session = <<"evening">>
    /\ req[1].id \in 1..Len(db0.milk)
    /\ db0.milk[req[1].id].owner_id = req[1].owner
    /\ db0.milk[req[1].id].session = "PM"

\* The form saved a record sent with another session
C24_WitnessAdd ==
    /\ resp # <<>> /\ req[1].path = "/add" /\ req[1].session = "evening"
    /\ resp[1].flash = "Saved!"

\* ------------------------------------------------------------------ C25
\* A set-up that gave a mock email and a mock credential
WithMock(s) == s.email # "" /\ s.credential # ""

\* The request in flight is a /login to the workspace of the set-up s with
\* the mock credential of s and no other email as hint
LoginAfter(s) ==
    /\ req # <<>>
    /\ req[1].path = "/login"
    /\ slugify(Strip(req[1].tenant)) = s.slug
    /\ Strip(req[1].credential) = s.credential
    /\ req[1].email_hint \in {"", s.email}

\* C25: after a /tenant/setup that succeeded with a mock email and a mock
\* credential the tenant exists and that email is its admin user; any later
\* /login to that workspace with the same credential is answered with a
\* redirect, signs in that same user and adds no user row
C25_SetupThenLogin ==
    \A i \in 1..Len(runs) :
        LET s == runs[i]
            t == tenant_by_slug(db, s.slug)
        IN  WithMock(s) =>
                /\ t # NULL
                /\ s.user \in 1..Len(db.users)
                /\ db.users[s.user] = [email |-> s.email, role |-> "admin", tenant_id |-> t]
                /\ LoginAfter(s) =>
                       /\ resp[1].status = 302
                       /\ resp[1].user = s.user
                       /\ db.users = db0.users

\* A /login with the mock credential of the first set-up, after a second
\* workspace was set up in between, signed the first admin in again
C25_Witness ==
    /\ Len(runs) = 2
    /\ WithMock(runs[1])
    /\ LoginAfter(runs[1])
    /\ resp[1].status = 302
    /\ resp[1].user = runs[1].user


\* ------------------------------------------------------------------ C28
IsSetup == req # <<>> /\ req[1].path = "/tenant/setup"

\* Tenants with an admin user
HasAdmin(d, t) ==
    \E u \in 1..Len(d.users) : d.users[u].tenant_id = t /\ d.users[u].role = "admin"

\* C28: a /tenant/setup that did not succeed added no tenant, mock-user or
\* user row, and every tenant made by a set-up has an admin user
C28_SetupAllOrNothing ==
    /\ (IsSetup /\ resp[1].status # 302) => db = db0
    /\ \A t \in 2..Len(db.tenants) : HasAdmin(db, t)

\* C28, the part that holds: a /tenant/setup refused by validation, by a
\* workspace id in use or by credential verification (status 400) added
\* no row, and one that succeeded added the tenant and its admin user
C28_RefusedSetupWritesNothing ==
    IsSetup =>
        /\ resp[1].status = 400 => db = db0
        /\ resp[1].status = 302 =>
               /\ Len(db.tenants) = Len(db0.tenants) + 1
               /\ Len(db.users) = Len(db0.users) + 1
               /\ db.users[resp[1].user].role = "admin"
               /\ db.users[resp[1].user].tenant_id = Len(db.tenants)

\* A set-up was refused for a workspace id in use after one had succeeded
C28_Witness ==
    /\ IsSetup
    /\ resp[1].status = 400
    /\ Len(runs) = 1
    /\ SlugOf(req[1]) = runs[1].slug

\* A set-up failed at the INSERT of the admin user and left its tenant
C28_WitnessLeftover ==
    /\ IsSetup
    /\ resp[1].status = 500
    /\ Len(db.tenants) = Len(db0.tenants) + 1
    /\ ~HasAdmin(db, Len(db.tenants))

\* ------------------------------------------------------------------ C29
IsLogin == req # <<>> /\ req[1].path = "/login"

\* The emails the credential stands for in the workspace slug of store d:
\* the account of a Google token, the mock users of the tenant
CredentialEmails(d, slug, credential) ==
    {e \in EmailIn : \/ id_token_email(credential) = <<e>>
                     \/ \E i \in 1..Len(SettingsMockUsers(slug)) :
                           SettingsMockUsers(slug)[i] = [email |-> e, credential |-> credential]
                     \/ \E i \in 1..Len(d.mock) :
                           /\ d.mock[i].tenant_id = tenant_by_slug(d, slug)
                           /\ d.mock[i].email = e
                           /\ d.mock[i].credential = credential}

\* The /login in flight fails for one of the reasons: empty workspace id,
\* unknown workspace, missing credential, credential that does not verify
\* for the tenant, email hint other than the credential's email
LoginFails ==
    LET slug == slugify(Strip(req[1].tenant))
        credential == Strip(req[1].credential)
        emails == CredentialEmails(db0, slug, credential)
    IN  \/ slug = ""
        \/ tenant_by_slug(db0, slug) = NULL
        \/ credential = ""
        \/ emails = {}
        \/ (req[1].email_hint # "" /\ req[1].email_hint \notin emails)

\* C29: a /login that fails for one of these reasons is answered with an
\* error (400), signs nobody in and leaves the store as it was
C29_FailedLoginWritesNothing ==
    (IsLogin /\ LoginFails) =>
        /\ resp[1].status = 400
        /\ resp[1].user = NULL
        /\ db = db0

\* A credential that verifies for the workspace was refused for its hint
C29_Witness ==
    /\ IsLogin
    /\ resp[1].status = 400
    /\ Len(db.users) > 0
    /\ CredentialEmails(db0, slugify(Strip(req[1].tenant)), Strip(req[1].credential)) # {}
    /\ req[1].email_hint # ""

\* A credential of another workspace was refused
C29_WitnessOtherTenant ==
    /\ IsLogin
    /\ resp[1].status = 400
    /\ req[1].tenant = DefaultSlug
    /\ req[1].credential = "tokB"
    /\ \E i \in 1..Len(db.mock) : db.mock[i].credential = "tokB"

\* ------------------------------------------------------------------ C30
\* No two user rows share tenant and email
UniquePerTenant ==
    \A i, j \in 1..Len(db.users) :
        (db.users[i].tenant_id = db.users[j].tenant_id /\ db.users[i].email = db.users[j].email)
            => i = j

\* The /login in flight was not refused for its workspace or credential
VerifiedLogin == req # <<>> /\ req[1].path = "/login" /\ resp[1].status # 400

\* C30: no two user rows share tenant and email, and a login with a verified
\* email to an existing tenant succeeds with an account of that email in
\* that tenant, whatever accounts the email has in other tenants
C30_AccountPerTenant ==
    /\ UniquePerTenant
    /\ VerifiedLogin =>
           /\ resp[1].status = 302
           /\ resp[1].user \in 1..Len(db.users)
           /\ db.users[resp[1].user].email = req[1].email
           /\ db.users[resp[1].user].tenant_id = tenant_by_slug(db, req[1].slug)

\* C30, the part that holds: no two user rows share tenant and email, and
\* a login that succeeds signs in the account of that email in that tenant
C30_UniquePerTenant ==
    /\ UniquePerTenant
    /\ (VerifiedLogin /\ resp[1].status = 302) =>
           /\ resp[1].user \in 1..Len(db.users)
           /\ db.users[resp[1].user].email = req[1].email
           /\ db.users[resp[1].user].tenant_id = tenant_by_slug(db, req[1].slug)

\* A user who has an account signed in again while the tenant had others
C30_Witness ==
    /\ VerifiedLogin
    /\ resp[1].status = 302
    /\ resp[1].user < Len(db.users)
    /\ db.users[Len(db.users)].tenant_id = db.users[resp[1].user].tenant_id

\* A verified email with an account in one tenant was refused in another
C30_WitnessSecondTenant ==
    /\ VerifiedLogin
    /\ resp[1].status = 500
    /\ \E i \in 1..Len(db.users) :
          /\ db.users[i].email = req[1].email
          /\ db.users[i].tenant_id # tenant_by_slug(db, req[1].slug)

\* ------------------------------------------------------------------ C26
\* g is a hundredth nearest to litres * price
NearestHundredth(g, litres, price) ==
    /\ g % 10 = 0
    /\ 100 * g - litres * price <= 500
    /\ litres * price - 100 * g <= 500

\* The gain of a listed item is the rounded product where the record has a
\* price, and there is none where it has no price
GainAsListed(item, litres, price) ==
    IF price = <<>> THEN item.gain = <<>>
    ELSE /\ Len(item.gain) = 1
         /\ NearestHundredth(item.gain[1], litres, price[1])

\* C26: after an /add that saved, the /recent view of that user, with any
\* limit, lists the new record first, with the cow, the litres and the price
\* submitted; its gain is round(litres * price_per_litre, 2), and a record
\* without a price has no gain. Every row /recent lists follows the same rule
C26_AddedIsListedWithGain ==
    /\ (req # <<>> /\ req[1].path = "/add" /\ resp[1].flash = "Saved!") =>
           \A arg \in LimitIn :
               LET rows == recent_screen(db, req[1].owner, arg)
               IN  /\ Len(rows) >= 1
                   /\ rows[1].id = Len(db.milk)
                   /\ rows[1].id > Len(db0.milk)
                   /\ rows[1].cow_number = req[1].cow
                   /\ rows[1].litres = req[1].litres
                   /\ rows[1].price_per_litre = req[1].price
                   /\ GainAsListed(rows[1], req[1].litres, req[1].price)
    /\ (req # <<>> /\ req[1].path = "/recent") =>
           \A k \in 1..Len(resp[1].rows) :
               LET item == resp[1].rows[k]
               IN  /\ db.milk[item.id].owner_id = req[1].owner
                   /\ GainAsListed(item, db.milk[item.id].litres,
                                   db.milk[item.id].price_per_litre)

\* 9.10 litres at 0.73 were saved after another record of the user: the
\* product 6.643 is listed as 6.64
C26_Witness ==
    /\ req # <<>> /\ req[1].path = "/add" /\ resp[1].flash = "Saved!"
    /\ req[1].litres = 9100 /\ req[1].price = <<73>>
    /\ recent_screen(db, req[1].owner, <<>>)[1].gain = <<6640>>
    /\ Len(recent_screen(db, req[1].owner, <<>>)) >= 2

\* /recent listed a record with a price and a record without one
C26_WitnessListed ==
    /\ req # <<>> /\ req[1].path = "/recent"
    /\ \E j, k \in 1..Len(resp[1].rows) :
          resp[1].rows[j].gain = <<>> /\ resp[1].rows[k].gain = <<3370>>

\* ------------------------------------------------------------------ C27
AdminsOf(t) == {u \in 1..Len(db.users) : db.users[u].tenant_id = t /\ db.users[u].role = "admin"}

UsersOf(t) == {u \in 1..Len(db.users) : db.users[u].tenant_id = t}

\* C27: however the statements of sign-ins to a tenant without users
\* interleave, exactly one of the users created is an admin
C27_OneAdminPerTenant ==
    \A t \in 1..Len(db.tenants) :
        UsersOf(t) # {} => Cardinality(AdminsOf(t)) = 1

\* C27, the part that holds: a tenant with users has an admin, and the
\* first user created in it is one
C27_FirstCreatedIsAdmin ==
    \A t \in 1..Len(db.tenants) :
        UsersOf(t) # {} =>
            db.users[CHOOSE u \in UsersOf(t) : \A v \in UsersOf(t) : u <= v].role = "admin"

\* Two sign-ins to a tenant without users: both have taken the count before
\* either has inserted
C27_Witness ==
    /\ \A w \in {1, 2} : At(w, "insert") /\ loc[w].role = "admin"
    /\ loc[1].tenant = loc[2].tenant
    /\ loc[1].email # loc[2].email
    /\ UsersOf(loc[1].tenant) = {}

\* Both have inserted: the tenant has two admins
C27_WitnessTwoAdmins ==
    \E t \in 1..Len(db.tenants) : Cardinality(AdminsOf(t)) = 2
=========================================================================
